---- MODULE Spec2Model ----
(***************************************************************************)
(* Model of the stream-transcoding gateway of http-llm-server:             *)
(*   src/src/server/streaming.py   StreamingContext (the Transcoder)       *)
(*   src/src/app.py                handle_http_request                     *)
(*   src/src/server/middleware.py  the request pipeline stages             *)
(*   src/src/server/errors.py      the error responder                     *)
(* Text is a sequence of one-character strings, so that chunk boundaries   *)
(* can fall anywhere, also inside the CR LF CR LF separator.               *)
(***************************************************************************)
EXTENDS Integers, Sequences, FiniteSets, TLC

----------------------------------------------------------------------------
(* Bounds of the model                                                     *)

\* number of tool_output events the engine may emit in one request
MaxTools == 1
\* number of ResponseCompletedEvent events the engine may emit in one request
MaxCompleted == 1

----------------------------------------------------------------------------
(* Characters and Python str operations                                    *)

CR == "\r"
LF == "\n"
SP == " "
CRLF == <<CR, LF>>
CRLFCRLF == <<CR, LF, CR, LF>>
LFLF == <<LF, LF>>

\* str.isspace() for the characters of the model's alphabet
Whitespace == {SP, CR, LF, "\t"}

Digits == <<"0", "1", "2", "3", "4", "5", "6", "7", "8", "9">>

UpperLetters == <<"A", "B", "C", "D", "E", "F", "G", "H", "I", "J", "K", "L", "M",
                  "N", "O", "P", "Q", "R", "S", "T", "U", "V", "W", "X", "Y", "Z">>
LowerLetters == <<"a", "b", "c", "d", "e", "f", "g", "h", "i", "j", "k", "l", "m",
                  "n", "o", "p", "q", "r", "s", "t", "u", "v", "w", "x", "y", "z">>

\* `pat in s`, as the index of the first occurrence (0 when absent): str.find + 1
Find(s, pat) ==
    LET cands == {i \in 1..(Len(s) - Len(pat) + 1) : SubSeq(s, i, i + Len(pat) - 1) = pat}
    IN IF cands = {} THEN 0 ELSE CHOOSE i \in cands : \A j \in cands : i <= j

Contains(s, pat) == Find(s, pat) > 0

StartsWith(s, p) == Len(s) >= Len(p) /\ SubSeq(s, 1, Len(p)) = p

\* s.split(sep, maxsplit): maxsplit < 0 means no limit
RECURSIVE Split(_, _, _)
Split(s, sep, maxsplit) ==
    LET i == Find(s, sep)
    IN IF i = 0 \/ maxsplit = 0
       THEN <<s>>
       ELSE <<SubSeq(s, 1, i - 1)>> \o
            Split(SubSeq(s, i + Len(sep), Len(s)), sep, maxsplit - 1)

\* s.strip()
RECURSIVE LStrip(_)
LStrip(s) == IF s # <<>> /\ Head(s) \in Whitespace THEN LStrip(Tail(s)) ELSE s

RECURSIVE RStrip(_)
RStrip(s) ==
    IF s # <<>> /\ s[Len(s)] \in Whitespace THEN RStrip(SubSeq(s, 1, Len(s) - 1)) ELSE s

Strip(s) == RStrip(LStrip(s))

LowerChar(c) ==
    IF \E i \in 1..26 : UpperLetters[i] = c
    THEN LowerLetters[CHOOSE i \in 1..26 : UpperLetters[i] = c]
    ELSE c

\* s.lower()
Lower(s) == [i \in 1..Len(s) |-> LowerChar(s[i])]

DigitValue(c) == (CHOOSE i \in 1..10 : Digits[i] = c) - 1

IsDigit(c) == \E i \in 1..10 : Digits[i] = c

\* int(s) succeeds: s is a non-empty run of decimal digits (the alphabet of the
\* model has no sign and no underscore; parts of a stripped, space-split line
\* carry no surrounding white space)
IsInt(s) == s # <<>> /\ \A i \in 1..Len(s) : IsDigit(s[i])

RECURSIVE ToInt(_)
ToInt(s) == IF s = <<>> THEN 0 ELSE 10 * ToInt(SubSeq(s, 1, Len(s) - 1)) + DigitValue(s[Len(s)])

----------------------------------------------------------------------------
(* Headers: the dict built by the parser and the response's CIMultiDict     *)

\* headers[key] = value on the parser's dict: exact key, insertion order kept
DictSet(d, k, v) ==
    IF \E i \in 1..Len(d) : d[i][1] = k
    THEN [i \in 1..Len(d) |-> IF d[i][1] = k THEN <<k, v>> ELSE d[i]]
    ELSE Append(d, <<k, v>>)

\* response.headers[key] = value: the key is compared without regard to case
HeadersSet(h, k, v) ==
    Append(SelectSeq(h, LAMBDA e : Lower(e[1]) # Lower(k)), <<k, v>>)

HasHeader(h, lname) == \E i \in 1..Len(h) : Lower(h[i][1]) = lname

----------------------------------------------------------------------------
(* The response object and the transport                                   *)

Str_OK == <<"O", "K">>
Str_ContentType == <<"C", "o", "n", "t", "e", "n", "t", "-", "T", "y", "p", "e">>
Str_text_plain == <<"t", "e", "x", "t", "/", "p", "l", "a", "i", "n">>
Str_text_plain_utf8 == Str_text_plain \o <<";", " ", "c", "h", "a", "r", "s", "e", "t", "=", "u", "t", "f", "-", "8">>
Str_Connection == <<"C", "o", "n", "n", "e", "c", "t", "i", "o", "n">>
Str_close == <<"c", "l", "o", "s", "e">>
Str_HTTP == <<"H", "T", "T", "P", "/">>

\* reason phrases are kept symbolic where the code passes a literal
Reason_HeaderParsingError == <<"LLM Header Parsing Error">>

\* web.StreamResponse(status=..., reason=...): nothing sent yet
NewStreamResponse(status, reason) ==
    [kind |-> "stream", prepared |-> FALSE, status |-> status, reason |-> reason,
     headers |-> <<>>, cookie |-> <<>>, body |-> <<>>]

\* what the transport is handed when a response is prepared
HeadEvent(resp) ==
    [t |-> "head", status |-> resp.status, reason |-> resp.reason,
     headers |-> resp.headers, cookie |-> resp.cookie, data |-> <<>>]

BodyEvent(data) ==
    [t |-> "body", status |-> 0, reason |-> <<>>, headers |-> <<>>, cookie |-> <<>>,
     data |-> data]

EofEvent ==
    [t |-> "eof", status |-> 0, reason |-> <<>>, headers |-> <<>>, cookie |-> <<>>,
     data |-> <<>>]

\* the bytes of consecutive writes form one body on the wire
WireWrite(w, data) ==
    IF w # <<>> /\ w[Len(w)].t = "body"
    THEN [w EXCEPT ![Len(w)].data = @ \o data]
    ELSE Append(w, BodyEvent(data))

\* A call state threads the StreamingContext, the transport and the pending
\* exception through the nested calls of one handler.
\*   exc: "none" | "reset" (ClientConnectionResetError) | "cancelled"
\*        (asyncio.CancelledError) | "error" (any other Exception)
\*   failed / late: a sink operation has failed / sink operations attempted
\*        after that failure
CallState(c, w, f, l) == [ctx |-> c, wire |-> w, exc |-> "none", failed |-> f, late |-> l]

\* await response.prepare(request): StreamResponse._start assigns the payload
\* writer (so `prepared` is true from then on) before the headers are written;
\* writing to a closed transport raises ClientConnectionResetError
Prepare(r, conn) ==
    LET r1 == [r EXCEPT !.ctx.response.prepared = TRUE,
                        !.late = IF r.failed THEN @ + 1 ELSE @]
    IN IF conn
       THEN [r1 EXCEPT !.wire = Append(@, HeadEvent(r.ctx.response))]
       ELSE [r1 EXCEPT !.exc = "reset", !.failed = TRUE]

\* await response.write(data)
Write(r, data, conn) ==
    LET r1 == [r EXCEPT !.late = IF r.failed THEN @ + 1 ELSE @]
    IN IF conn
       THEN [r1 EXCEPT !.wire = WireWrite(@, data)]
       ELSE [r1 EXCEPT !.exc = "reset", !.failed = TRUE]

----------------------------------------------------------------------------
(* StreamingContext: the Transcoder (src/src/server/streaming.py)          *)

\* StreamingContext.__init__
NewStreamingContext ==
    [response |-> NewStreamResponse(200, Str_OK),
     body_buffer |-> <<>>,
     header_section |-> <<>>,
     llm_response_fully_collected_text_for_log |-> <<>>,
     model_error_indicator_for_recording |-> "None",
     prompt_tokens_from_usage |-> 0,
     session_id_from_tool_call |-> <<>>]

\* lines = header_section.split("\r\n") if "\r\n" in header_section else split("\n")
HeaderLines(header_section) ==
    IF Contains(header_section, CRLF)
    THEN Split(header_section, CRLF, -1)
    ELSE Split(header_section, <<LF>>, -1)

\* the status-line part of _parse_and_prepare_response: ok is FALSE where the
\* code raises ValueError (fewer than two parts, or int() of a non-number)
ParseStatusLine(status_line) ==
    LET parts == Split(Strip(status_line), <<SP>>, 2)
    IN IF Len(parts) >= 3
       THEN [ok |-> IsInt(parts[2]),
             status_code |-> IF IsInt(parts[2]) THEN ToInt(parts[2]) ELSE 0,
             reason |-> parts[3]]
       ELSE IF Len(parts) = 2
       THEN [ok |-> IsInt(parts[2]),
             status_code |-> IF IsInt(parts[2]) THEN ToInt(parts[2]) ELSE 0,
             reason |-> <<>>]
       ELSE [ok |-> FALSE, status_code |-> 0, reason |-> <<>>]

\* the header loop: a stripped line holding ": " is split at its first ": "
RECURSIVE ParseHeaders(_, _)
ParseHeaders(lines, headers) ==
    IF lines = <<>>
    THEN headers
    ELSE LET line == Strip(Head(lines))
             kv == Split(line, <<":", SP>>, 1)
         IN ParseHeaders(Tail(lines),
                         IF Contains(line, <<":", SP>>)
                         THEN DictSet(headers, kv[1], kv[2])
                         ELSE headers)

\* the headers the code refuses to copy from the engine's text to the response
SkippedHeader(key) == Lower(key) = <<"c", "o", "n", "t", "e", "n", "t", "-", "l", "e", "n", "g", "t", "h">>

\* for key, value in headers.items(): if not skipped: response.headers[key] = value
RECURSIVE ApplyHeaders(_, _)
ApplyHeaders(respHeaders, headers) ==
    IF headers = <<>>
    THEN respHeaders
    ELSE ApplyHeaders(IF SkippedHeader(Head(headers)[1])
                      THEN respHeaders
                      ELSE HeadersSet(respHeaders, Head(headers)[1], Head(headers)[2]),
                      Tail(headers))

\* StreamingContext._parse_and_prepare_response
\* A ClientConnectionResetError raised by prepare or by the initial write is
\* caught and only logged (exc becomes "none" again); a ValueError from the
\* status line replaces the response by a fresh 500 one, whose prepare runs in
\* the except block, so its ClientConnectionResetError propagates.
parse_and_prepare_response(r, header_section, initial_body_chunk, conn) ==
    LET lines == HeaderLines(header_section)
        st == ParseStatusLine(lines[1])
        headers == ParseHeaders(Tail(lines), <<>>)
    IN IF st.ok
       THEN LET r1 == [r EXCEPT !.ctx.response.status = st.status_code,
                                !.ctx.response.reason = Strip(st.reason),
                                !.ctx.response.headers = ApplyHeaders(@, headers),
                                !.ctx.response.cookie = r.ctx.session_id_from_tool_call]
                r2 == Prepare(r1, conn)
                r3 == IF r2.exc = "none" /\ initial_body_chunk # <<>>
                      THEN Write(r2, initial_body_chunk, conn)
                      ELSE r2
            IN [r3 EXCEPT !.exc = "none"]
       ELSE Prepare([r EXCEPT !.ctx.model_error_indicator_for_recording = "header_parsing_error",
                              !.ctx.response = NewStreamResponse(500, Reason_HeaderParsingError)],
                    conn)

\* a buffer that keeps only the latest chunk (`=` written for `+=`)
BufferReplace(body_buffer, chunk) == chunk

\* self.body_buffer += chunk
BufferAppend(body_buffer, chunk) == body_buffer \o chunk

\* separator_found: "\r\n\r\n" if it is anywhere in the buffer, else "\n\n" if
\* that is, else None (the empty sequence)
separator_found(body_buffer) ==
    IF Contains(body_buffer, CRLFCRLF) THEN CRLFCRLF
    ELSE IF Contains(body_buffer, LFLF) THEN LFLF
    ELSE <<>>

\* StreamingContext.process_chunk
process_chunk(r, chunk, conn) ==
    LET out ==
          IF ~r.ctx.response.prepared
          THEN LET buf == BufferAppend(r.ctx.body_buffer, chunk)
                   sep == separator_found(buf)
                   r1 == [r EXCEPT !.ctx.body_buffer = buf,
                                   !.ctx.llm_response_fully_collected_text_for_log = @ \o chunk]
               IN IF sep # <<>>
                  THEN LET sp == Split(buf, sep, 1)
                       IN parse_and_prepare_response(
                              [r1 EXCEPT !.ctx.body_buffer = sp[2],
                                         !.ctx.header_section = sp[1]],
                              sp[1], sp[2], conn)
                  ELSE r1
          ELSE Write(r, chunk, conn)
    IN IF out.exc = "reset"
       THEN [out EXCEPT !.ctx.model_error_indicator_for_recording = "client_disconnected",
                        !.exc = "cancelled"]
       ELSE out

\* StreamingContext.handle_tool_results, from the extracted text_content on
handle_tool_results(r, text_content, conn) ==
    IF StartsWith(text_content, Str_HTTP)
    THEN process_chunk(IF r.ctx.body_buffer # <<>> /\ ~r.ctx.response.prepared
                       THEN [r EXCEPT !.ctx.body_buffer = <<>>]
                       ELSE r,
                       text_content, conn)
    ELSE IF Len(text_content) < 100 /\ Contains(text_content, <<"-">>)
    THEN [r EXCEPT !.ctx.session_id_from_tool_call = Strip(text_content)]
    ELSE r

\* the end of StreamingContext.stream_agent_response, after the event loop
finish_stream(r, conn) ==
    IF ~r.ctx.response.prepared /\ r.ctx.body_buffer # <<>>
    THEN LET r1 == [r EXCEPT !.ctx.response.status = 200,
                             !.ctx.response.reason = Str_OK,
                             !.ctx.response.headers =
                                 HeadersSet(@, Str_ContentType, Str_text_plain_utf8)]
             r2 == Prepare(r1, conn)
         IN IF r2.exc = "none" THEN Write(r2, r.ctx.body_buffer, conn) ELSE r2
    ELSE r

----------------------------------------------------------------------------
(* Inputs: engine texts, tool results, the engine's error page             *)

\* 'HTTP/1.1 200 OK\r\nContent-Type: text/plain\r\n\r\nHello'
T_Hello ==
    <<"H", "T", "T", "P", "/", "1", ".", "1", SP, "2", "0", "0", SP, "O", "K", CR, LF, "C",
    "o", "n", "t", "e", "n", "t", "-", "T", "y", "p", "e", ":", SP, "t", "e", "x", "t", "/",
    "p", "l", "a", "i", "n", CR, LF, CR, LF, "H", "e", "l", "l", "o">>

\* 'HTTP/1.1 200 OK\r\n\r\nHello, world!'
T_World ==
    <<"H", "T", "T", "P", "/", "1", ".", "1", SP, "2", "0", "0", SP, "O", "K", CR, LF, CR,
    LF, "H", "e", "l", "l", "o", ",", SP, "w", "o", "r", "l", "d", "!">>

\* 'HTTP/1.1 200 OK\r\nX: y\r\n\r\nHi'
T_Ok ==
    <<"H", "T", "T", "P", "/", "1", ".", "1", SP, "2", "0", "0", SP, "O", "K", CR, LF, "X",
    ":", SP, "y", CR, LF, CR, LF, "H", "i">>

\* 'HTTP/1.1 200\nCONNECTION: x\n\nHi'
T_Framing ==
    <<"H", "T", "T", "P", "/", "1", ".", "1", SP, "2", "0", "0", LF, "C", "O", "N", "N",
    "E", "C", "T", "I", "O", "N", ":", SP, "x", LF, LF, "H", "i">>

\* 'HTTP/1.1\r\n\r\nHi'
T_NoCode ==
    <<"H", "T", "T", "P", "/", "1", ".", "1", CR, LF, CR, LF, "H", "i">>

\* 'HTTP/1.1 OK\n\nHi'
T_BadCode ==
    <<"H", "T", "T", "P", "/", "1", ".", "1", SP, "O", "K", LF, LF, "H", "i">>

\* 'HTTP/1.1 200\n\nHi'
T_Short ==
    <<"H", "T", "T", "P", "/", "1", ".", "1", SP, "2", "0", "0", LF, LF, "H", "i">>

\* 'Hi'
T_Prose ==
    <<"H", "i">>

\* 'HTTP/1.1 204 No\r\nX: y'
T_HeadOnly ==
    <<"H", "T", "T", "P", "/", "1", ".", "1", SP, "2", "0", "4", SP, "N", "o", CR, LF, "X",
    ":", SP, "y">>

\* 'HTTP/1.1 200 OK\n\nA\r\n\r\nB'
T_Mixed ==
    <<"H", "T", "T", "P", "/", "1", ".", "1", SP, "2", "0", "0", SP, "O", "K", LF, LF, "A",
    CR, LF, CR, LF, "B">>

\* 's-1'
Tool_SessionId ==
    <<"s", "-", "1">>

\* 'HTTP/1.1 201 OK\r\nTransfer-Encoding: c\r\ncontent-length: 1\r\n\r\nT'
Tool_Http ==
    <<"H", "T", "T", "P", "/", "1", ".", "1", SP, "2", "0", "1", SP, "O", "K", CR, LF, "T",
    "r", "a", "n", "s", "f", "e", "r", "-", "E", "n", "c", "o", "d", "i", "n", "g", ":", SP,
    "c", CR, LF, "c", "o", "n", "t", "e", "n", "t", "-", "l", "e", "n", "g", "t", "h", ":",
    SP, "1", CR, LF, CR, LF, "T">>

\* 'ok'
Tool_Opaque ==
    <<"o", "k">>

\* 'Hello'
Str_Hello ==
    <<"H", "e", "l", "l", "o">>

\* 'HTTP/1.1 500 E\r\nConnection: close\r\n\r\nErr'
ErrorPage ==
    <<"H", "T", "T", "P", "/", "1", ".", "1", SP, "5", "0", "0", SP, "E", CR, LF, "C", "o",
    "n", "n", "e", "c", "t", "i", "o", "n", ":", SP, "c", "l", "o", "s", "e", CR, LF, CR,
    LF, "E", "r", "r">>

\* 'HTTP/1.1 200 OK\nA:b\nC: d:e\nZ\n\nHi'
T_Colons ==
    <<"H", "T", "T", "P", "/", "1", ".", "1", SP, "2", "0", "0", SP, "O", "K", LF, "A",
    ":", "b", LF, "C", ":", SP, "d", ":", "e", LF, "Z", LF, LF, "H", "i">>

\* header blocks with a colon followed by a space, by none, a value that holds
\* a colon, and a line without a colon
HeaderTexts == {T_Ok, T_Colons}

\* texts the engine may stream, one per request, in deltas of any size, in a
\* run with tool results and completed events
Texts == {T_Short, T_BadCode, T_Prose, <<>>}

\* texts the engine may stream in a run that consists of text deltas only
DeltaTexts == {T_Hello, T_World, T_Ok, T_Framing, T_NoCode, T_BadCode, T_Prose,
               T_HeadOnly, T_Mixed, T_Short, <<>>}

\* text_content of the tool results the engine may report
ToolTexts == {Tool_SessionId, Tool_Http, Tool_Opaque}

\* assign_session_id: f"Session ID assigned: {session_id}"
assign_session_id(session_id) ==
    <<"S", "e", "s", "s", "i", "o", "n", SP, "I", "D", SP, "a", "s", "s", "i", "g", "n",
      "e", "d", ":", SP>> \o session_id

\* set_global_state: f"Value for '{key}' has been set."
set_global_state(key) ==
    <<"V", "a", "l", "u", "e", SP, "f", "o", "r", SP, "'">> \o key \o
    <<"'", SP, "h", "a", "s", SP, "b", "e", "e", "n", SP, "s", "e", "t", ".">>

\* 'a-b'
Key_Hyphen ==
    <<"a", "-", "b">>

\* 'k'
Key_Plain ==
    <<"k">>

\* results of create_session (a uuid, here 's-1') and assign_session_id
SessionToolResults == {Tool_SessionId, assign_session_id(Tool_SessionId)}

\* results of the local tools: the session tools, and set_global_state for a
\* key with and without a hyphen
LocalToolResults ==
    SessionToolResults \cup {set_global_state(Key_Hyphen), set_global_state(Key_Plain)}

----------------------------------------------------------------------------
(* The error responder (src/src/server/errors.py)                          *)

\* str(n) of a natural number
RECURSIVE IntToText(_)
IntToText(n) ==
    LET d == Digits[(n % 10) + 1]
    IN IF n < 10 THEN <<d>> ELSE Append(IntToText(n \div 10), d)

\* f"HTTP {status_code} - {message}\n\nError Details: {error_details}"
Str_FallbackBody(status_code, message, error_details) ==
    <<"H", "T", "T", "P", SP>> \o IntToText(status_code) \o <<SP, "-", SP>> \o message
    \o <<LF, LF>>
    \o <<"E", "r", "r", "o", "r", SP, "D", "e", "t", "a", "i", "l", "s", ":", SP>>
    \o error_details

\* _minimal_fallback_response
minimal_fallback_response(status_code, message, error_details) ==
    [kind |-> "plain", prepared |-> FALSE, status |-> status_code, reason |-> <<>>,
     headers |-> <<
         <<Str_Connection, Str_close>>,
         <<Str_ContentType, Str_text_plain_utf8>> >>,
     cookie |-> <<>>, body |-> Str_FallbackBody(status_code, message, error_details)]

\* the header loop of the engine-generated page: split at the first ":"
RECURSIVE ErrorPageHeaders(_, _)
ErrorPageHeaders(lines, headers) ==
    IF lines = <<>>
    THEN headers
    ELSE LET kv == Split(Head(lines), <<":">>, 1)
         IN ErrorPageHeaders(Tail(lines),
                             IF Contains(Head(lines), <<":">>)
                             THEN HeadersSet(headers, Strip(kv[1]), Strip(kv[2]))
                             ELSE headers)

\* the ways the engine-generated page (tier 1) can turn out
Tier1Outcomes == {"no_agent", "no_template", "raises", "invalid_item", "empty",
                  "no_separator", "page"}

\* the engine-generated page, split at the first CRLF CRLF
EnginePage(status_code) ==
    LET sp == Split(ErrorPage, CRLFCRLF, 1)
    IN [kind |-> "plain", prepared |-> FALSE, status |-> status_code,
        reason |-> <<>>,
        headers |-> ErrorPageHeaders(Split(sp[1], CRLF, -1), <<>>),
        cookie |-> <<>>, body |-> sp[2]]

\* a responder without the try/except around tier 1: the exception of the
\* engine leaves it and no response is returned
send_llm_error_response_unguarded(tier1, status_code, message, error_details) ==
    IF tier1 = "page"
    THEN EnginePage(status_code)
    ELSE IF tier1 = "raises"
    THEN [kind |-> "none", prepared |-> FALSE, status |-> 0, reason |-> <<>>,
          headers |-> <<>>, cookie |-> <<>>, body |-> <<>>]
    ELSE minimal_fallback_response(status_code, message, error_details)

\* send_llm_error_response_aiohttp: every failure of tier 1 returns the minimal
\* response; a page with a separator is split into headers and body
send_llm_error_response_aiohttp(tier1, status_code, message, error_details) ==
    IF tier1 = "page"
    THEN EnginePage(status_code)
    ELSE minimal_fallback_response(status_code, message, error_details)

\* the tiers one call of send_llm_error_response_aiohttp goes through: the
\* engine-generated page (1), then at once the minimal plain-text response
\* (3); no static template (2) is rendered in between
TiersTaken(tier1) == IF tier1 = "page" THEN <<1>> ELSE <<1, 3>>

\* tier 1 reaches the engine unless the agent or the template is missing
AsksEngine(tier1) == tier1 \notin {"no_agent", "no_template"}

\* a responder that asks the engine once more when its page was no use
EngineRequestsRetrying(tier1) ==
    IF ~AsksEngine(tier1) THEN 0 ELSE IF tier1 = "page" THEN 1 ELSE 2

\* the requests one call of the responder makes to the engine: one
\* create_run_stream, and none from the fallback
EngineRequests(tier1) == IF AsksEngine(tier1) THEN 1 ELSE 0

----------------------------------------------------------------------------
(* One request through the pipeline                                        *)

VARIABLES
    text,                   \* the text the engine streams for this request
    pos,                    \* how much of it the engine has emitted
    session_id_from_cookie, \* the inbound cookie's session id (<<>>: none)
    pc,                     \* where the request task is
    exc,                    \* the exception propagating while pc = "raised"
    ctx,                    \* the StreamingContext
    wire,                   \* what the transport has sent to the client
    connected,              \* the client is still there
    metrics,                \* what stream_agent_response returned
    resp,                   \* the response object returned up the pipeline
    request,                \* the per-request context bag
    persisted,              \* turns recorded in the conversation store
    accessLog,              \* access-log lines emitted by the outermost stage
    errorPagesAsked,        \* engine-generated error pages requested
    escaped,                \* an exception left the outermost pipeline stage
    nTools, nCompleted,     \* tool_output / completed events so far
    deltas,                 \* history: the text deltas emitted, concatenated
    fed,                    \* history: the chunks given to process_chunk
    bodyStart,              \* history: length of fed before the body (-1: none)
    failed, late,           \* history: a sink operation failed / later ones
    eventsAfterFail,        \* history: engine events processed after it
    cutInSeparator,         \* history: a delta ended inside a separator
    route,                  \* the request's path and what the router made of it
    errorCall               \* a call of the error responder: arguments, outcome

\* what is fixed when the request enters the pipeline
entryVars == <<route, errorCall>>

requestVars == <<text, pos, session_id_from_cookie, pc, exc, ctx, wire, connected,
                 metrics, resp, request, persisted, accessLog, errorPagesAsked, escaped,
                 nTools, nCompleted, deltas, fed, bodyStart, failed, late,
                 eventsAfterFail, cutInSeparator, entryVars>>

\* The conversation store, application shutdown and tool-server registration
\* (src/src/server/conversation.py, src/src/app.py,
\* src/src/server/agent_setup.py, src/src/server/web_resource.py)
VARIABLES
    histories,              \* HttpConversationStore._histories
    token_counts,           \* HttpConversationStore._token_counts
    session_locks,          \* _session_locks: key -> lock object (weak values)
    writers,                \* the tasks calling the store, one record each
    flush,                  \* the task running on_shutdown and the flush
    files,                  \* conversation_logs/<session_id>.json
    writtenUnlocked,        \* history: sessions written without their lock held
    writeFailed,            \* history: sessions whose file write failed
    save_conversations,     \* config.save_conversations
    closed,                 \* tool servers whose teardown was awaited, in order
    teardown,               \* tool-server shutdown: repeated calls, force, dead
                            \* handles, logged errors, an error that escaped
    outcomes,               \* what starting each configured tool server does
    local_tools_enabled,    \* config.local_tools_enabled
    reg,                    \* where the registration task is
    mcp_servers,            \* the handles given to the agent
    mcp_server_lifecycles,  \* the handles kept for shutdown
    failures,               \* configured servers with a logged failure
    agent,                  \* app["agent"] is set
    web_servers             \* core_services: each web server resource, its
                            \* start task and its destroy call

storeVars == <<histories, token_counts, session_locks, writers, flush, files,
               writtenUnlocked, writeFailed, save_conversations>>

teardownVars == <<closed, teardown>>

regVars == <<outcomes, local_tools_enabled, reg, mcp_servers, mcp_server_lifecycles,
             failures, agent>>

resourceVars == <<web_servers>>

serverVars == <<storeVars, teardownVars, regVars, resourceVars>>

vars == <<requestVars, serverVars>>

\* an empty dict
EmptyDict == <<>>

\* no shutdown was asked for: every handle alive, cleanup(force = False)
TeardownIdle ==
    [again |-> 0, force |-> FALSE, dead |-> {}, logged |-> {}, raised |-> FALSE]

\* the store as HttpConversationStore.__init__ leaves it, with no task using it
StoreIdle ==
    /\ histories = EmptyDict
    /\ token_counts = EmptyDict
    /\ session_locks = EmptyDict
    /\ writers = <<>>
    /\ flush = [pc |-> "done", session_ids |-> <<>>, locks |-> <<>>, acquired |-> 0,
                k |-> 1, returned |-> FALSE, quiet |-> FALSE]
    /\ files = EmptyDict
    /\ writtenUnlocked = {}
    /\ writeFailed = {}
    /\ save_conversations = FALSE
    /\ closed = <<>>
    /\ teardown = TeardownIdle

\* number of web server resources core_services manages
NumResources == 2

ResourceIds == 1..NumResources

\* create_web_resource: the WebServer instance is built and stored under its
\* id with status "created"; nothing is started (runner and site are None)
CreatedResource ==
    [status |-> "created", task |-> "none", runner |-> FALSE, site |-> FALSE,
     listening |-> FALSE, destroy |-> "none"]

\* no tool call of core_services is in progress
ResourcesIdle == web_servers = [r \in ResourceIds |-> CreatedResource]

\* registration over: no tool server configured, the agent created
RegistrationIdle ==
    /\ outcomes = <<>>
    /\ local_tools_enabled = FALSE
    /\ reg = [path |-> "agent_setup", i |-> 1, pc |-> "done"]
    /\ mcp_servers = <<>>
    /\ mcp_server_lifecycles = <<>>
    /\ failures = {}
    /\ agent = TRUE

Cookie_Session == <<"c", "-", "0">>
Str_RawRequest == <<"GET / HTTP/1.1">>
Str_ErrorText == <<"ERROR: <exception>">>
Str_InternalServerError == <<"Internal Server Error">>
Str_UnexpectedError == <<"An unexpected error occurred: <exception>">>
Str_NotFound == <<"Not Found">>

NoResponse ==
    [kind |-> "none", prepared |-> FALSE, status |-> 0, reason |-> <<>>,
     headers |-> <<>>, cookie |-> <<>>, body |-> <<>>]

NoMetrics ==
    [returned |-> FALSE,
     llm_response_fully_collected_text_for_log |-> <<>>,
     model_error_indicator_for_recording |-> "None",
     prompt_tokens_from_usage |-> 0,
     final_session_id_for_turn |-> <<>>]

\* the keys the handler and the middlewares read with request.get(...)
EmptyRequest ==
    [llm_response_fully_collected_text_for_log |-> <<>>,
     model_error_indicator_for_recording |-> "None",
     prompt_tokens_from_usage |-> 0,
     final_session_id_for_turn |-> <<>>]

Path_Root == <<"/">>
Path_HealthCheck == <<"/_health_check">>

\* create_app: app.router.add_route("*", "/{path:.*}", handle_http_request) is
\* the only route, so every path resolves to the one handler
Resolve(path) == "handle_http_request"

\* the router hands the request to the handler of its path;
\* handle_http_request calls Runner.run_streamed once
Dispatch(path) ==
    [path |-> path, handler |-> Resolve(path),
     engine_runs |-> IF Resolve(path) = "handle_http_request" THEN 1 ELSE 0]

\* the error responder has not been called
NoErrorCall ==
    [pc |-> "none", tier1 |-> "page", status_code |-> 500, message |-> <<>>,
     error_details |-> <<>>, tiers |-> <<>>]

\* a request for "/" whose handler runs
EntryIdle ==
    /\ route = Dispatch(Path_Root)
    /\ errorCall = NoErrorCall

\* one request arrives
RequestInit(texts) ==
    /\ text \in texts
    /\ pos = 0
    /\ session_id_from_cookie \in {<<>>, Cookie_Session}
    /\ pc = "stream"
    /\ exc = "none"
    /\ ctx = NewStreamingContext
    /\ wire = <<>>
    /\ connected = TRUE
    /\ metrics = NoMetrics
    /\ resp = NoResponse
    /\ request = EmptyRequest
    /\ persisted = <<>>
    /\ accessLog = 0
    /\ errorPagesAsked = 0
    /\ escaped = FALSE
    /\ nTools = 0
    /\ nCompleted = 0
    /\ deltas = <<>>
    /\ fed = <<>>
    /\ bodyStart = -1
    /\ failed = FALSE
    /\ late = 0
    /\ eventsAfterFail = 0
    /\ cutInSeparator = FALSE

\* position k of text t lies strictly inside an occurrence of a separator
InSeparator(t, k) ==
    \E sep \in {CRLFCRLF, LFLF} :
        \E i \in 1..Len(t) :
            /\ i + Len(sep) - 1 <= Len(t)
            /\ SubSeq(t, i, i + Len(sep) - 1) = sep
            /\ i <= k
            /\ k < i + Len(sep) - 1

InitWith(texts) ==
    /\ RequestInit(texts)
    /\ ResourcesIdle
    /\ EntryIdle
    /\ StoreIdle
    /\ RegistrationIdle

Init == InitWith(Texts)

InitDeltas == InitWith(DeltaTexts)

pipelineVars == <<metrics, resp, request, persisted, accessLog, errorPagesAsked, escaped>>

\* the state one event handler of the stream loop leaves behind
AfterEvent(r, chunkFed) ==
    /\ ctx' = r.ctx
    /\ wire' = r.wire
    /\ failed' = r.failed
    /\ late' = r.late
    /\ eventsAfterFail' = IF failed THEN eventsAfterFail + 1 ELSE eventsAfterFail
    /\ fed' = fed \o chunkFed
    /\ bodyStart' = IF ~ctx.response.prepared /\ r.ctx.response.prepared
                    THEN Len(fed) + Len(chunkFed) - Len(r.ctx.body_buffer)
                    ELSE bodyStart
    /\ exc' = r.exc
    /\ pc' = IF r.exc = "none" THEN "stream" ELSE "raised"

\* ResponseTextDeltaEvent with a non-empty delta: process_chunk(delta)
Delta(n) ==
    /\ pc = "stream"
    /\ pos + n <= Len(text)
    /\ LET chunk == SubSeq(text, pos + 1, pos + n)
       IN /\ AfterEvent(process_chunk(CallState(ctx, wire, failed, late), chunk, connected),
                        chunk)
          /\ deltas' = deltas \o chunk
    /\ pos' = pos + n
    /\ cutInSeparator' = (cutInSeparator \/ InSeparator(text, pos + n))
    /\ UNCHANGED <<text, session_id_from_cookie, connected, nTools, nCompleted>>
    /\ UNCHANGED pipelineVars
    /\ UNCHANGED <<entryVars, serverVars>>

\* RunItemStreamEvent "tool_output": handle_tool_results(item)
ToolOutput(t) ==
    /\ pc = "stream"
    /\ nTools < MaxTools
    /\ AfterEvent(handle_tool_results(CallState(ctx, wire, failed, late), t, connected),
                  IF StartsWith(t, Str_HTTP) THEN t ELSE <<>>)
    /\ nTools' = nTools + 1
    /\ UNCHANGED <<text, pos, session_id_from_cookie, connected, nCompleted, deltas,
                   cutInSeparator>>
    /\ UNCHANGED pipelineVars
    /\ UNCHANGED <<entryVars, serverVars>>

\* ResponseCompletedEvent: usage is added up; the output text is processed
\* only when nothing has been collected yet (the engine did not stream it)
Completed(input_tokens, hasContent) ==
    /\ pc = "stream"
    /\ nCompleted < MaxCompleted
    /\ LET r0 == CallState([ctx EXCEPT !.prompt_tokens_from_usage = @ + input_tokens],
                           wire, failed, late)
           process == /\ hasContent
                      /\ text # <<>>
                      /\ ctx.llm_response_fully_collected_text_for_log = <<>>
                      /\ pos = 0
       IN /\ AfterEvent(IF process THEN process_chunk(r0, text, connected) ELSE r0,
                        IF process THEN text ELSE <<>>)
          /\ pos' = IF process THEN Len(text) ELSE pos
    /\ nCompleted' = nCompleted + 1
    /\ UNCHANGED <<text, session_id_from_cookie, connected, nTools, deltas,
                   cutInSeparator>>
    /\ UNCHANGED pipelineVars
    /\ UNCHANGED <<entryVars, serverVars>>

\* the generation engine fails: stream_events() raises
EngineError ==
    /\ pc = "stream"
    /\ pc' = "raised"
    /\ exc' = "error"
    /\ UNCHANGED <<text, pos, session_id_from_cookie, ctx, wire, connected, nTools,
                   nCompleted, deltas, fed, bodyStart, failed, late, eventsAfterFail,
                   cutInSeparator>>
    /\ UNCHANGED pipelineVars
    /\ UNCHANGED <<entryVars, serverVars>>

\* the client goes away
Disconnect ==
    /\ connected
    /\ pc # "done"
    /\ connected' = FALSE
    /\ UNCHANGED <<text, pos, session_id_from_cookie, pc, exc, ctx, wire, nTools,
                   nCompleted, deltas, fed, bodyStart, failed, late, eventsAfterFail,
                   cutInSeparator>>
    /\ UNCHANGED pipelineVars
    /\ UNCHANGED <<entryVars, serverVars>>

\* a precedence that prefers the inbound cookie's id
FinalSessionIdCookieFirst(session_id_from_tool_call, session_id) ==
    IF session_id # <<>> THEN session_id ELSE session_id_from_tool_call

\* final_session_id_for_turn = context.session_id_from_tool_call or session_id
FinalSessionId(session_id_from_tool_call, session_id) ==
    IF session_id_from_tool_call # <<>> THEN session_id_from_tool_call ELSE session_id

\* the event stream ends: the tail of stream_agent_response, then
\* LLMResponseStreamer.stream_response returns (response, final id, metrics)
EndOfStream ==
    /\ pc = "stream"
    /\ pos = Len(text)
    /\ LET r == finish_stream(CallState(ctx, wire, failed, late), connected)
       IN /\ ctx' = r.ctx
          /\ wire' = r.wire
          /\ failed' = r.failed
          /\ late' = r.late
          /\ exc' = r.exc
          /\ pc' = IF r.exc = "none" THEN "returned" ELSE "raised"
          /\ metrics' =
               IF r.exc = "none"
               THEN [returned |-> TRUE,
                     llm_response_fully_collected_text_for_log |->
                         r.ctx.llm_response_fully_collected_text_for_log,
                     model_error_indicator_for_recording |->
                         r.ctx.model_error_indicator_for_recording,
                     prompt_tokens_from_usage |-> r.ctx.prompt_tokens_from_usage,
                     final_session_id_for_turn |->
                         FinalSessionId(r.ctx.session_id_from_tool_call,
                                        session_id_from_cookie)]
               ELSE metrics
    /\ UNCHANGED <<text, pos, session_id_from_cookie, connected, nTools, nCompleted,
                   deltas, fed, bodyStart, eventsAfterFail, cutInSeparator>>
    /\ UNCHANGED <<resp, request, persisted, accessLog, errorPagesAsked, escaped>>
    /\ UNCHANGED <<entryVars, serverVars>>

streamVars == <<text, pos, session_id_from_cookie, ctx, nTools, nCompleted, deltas, fed,
                bodyStart, failed, late, eventsAfterFail, cutInSeparator>>

\* handle_http_request after the streamer returned: the metrics go into the
\* request bag; an unprepared response leads to the call of
\* send_llm_error_response_aiohttp with four arguments for five parameters,
\* which raises TypeError; a prepared one is ended with write_eof
HandlerTail ==
    /\ pc = "returned"
    /\ request' = [llm_response_fully_collected_text_for_log |->
                       metrics.llm_response_fully_collected_text_for_log,
                   model_error_indicator_for_recording |->
                       metrics.model_error_indicator_for_recording,
                   prompt_tokens_from_usage |-> metrics.prompt_tokens_from_usage,
                   final_session_id_for_turn |-> metrics.final_session_id_for_turn]
    /\ IF ~ctx.response.prepared
       THEN pc' = "raised" /\ exc' = "error" /\ UNCHANGED <<wire, resp>>
       ELSE IF connected
       THEN pc' = "handled" /\ exc' = "none" /\ wire' = Append(wire, EofEvent)
            /\ resp' = ctx.response
       ELSE pc' = "raised" /\ exc' = "reset" /\ UNCHANGED <<wire, resp>>
    /\ UNCHANGED streamVars
    /\ UNCHANGED <<connected, metrics, persisted, accessLog, errorPagesAsked, escaped>>
    /\ UNCHANGED <<entryVars, serverVars>>

\* error_handling_middleware: except Exception -> the error responder's response
ErrorMiddleware(tier1) ==
    /\ pc = "raised"
    /\ exc \in {"error", "reset"}
    /\ request' = [request EXCEPT
                     !.model_error_indicator_for_recording = "UNHANDLED_EXCEPTION",
                     !.llm_response_fully_collected_text_for_log = Str_ErrorText]
    /\ resp' = send_llm_error_response_aiohttp(tier1, 500, Str_InternalServerError,
                                               Str_UnexpectedError)
    /\ errorPagesAsked' = errorPagesAsked + EngineRequests(tier1)
    /\ pc' = "handled"
    /\ exc' = "none"
    /\ UNCHANGED streamVars
    /\ UNCHANGED <<wire, connected, metrics, persisted, accessLog, escaped>>
    /\ UNCHANGED <<entryVars, serverVars>>

\* asyncio.CancelledError is no Exception: no `except Exception` of the
\* pipeline catches it, and the stages' code after `await handler` is skipped
CancelPropagates ==
    /\ pc = "raised"
    /\ exc = "cancelled"
    /\ pc' = "done"
    /\ escaped' = TRUE
    /\ UNCHANGED streamVars
    /\ UNCHANGED <<exc, wire, connected, metrics, resp, request, persisted, accessLog,
                   errorPagesAsked>>
    /\ UNCHANGED <<entryVars, serverVars>>

\* session_cleanup_middleware: the turn is recorded under the final session id
SessionCleanup ==
    /\ pc = "handled"
    /\ persisted' =
         IF request.final_session_id_for_turn # <<>>
         THEN persisted \o
              << [session_id |-> request.final_session_id_for_turn, role |-> "user",
                  content |-> Str_RawRequest],
                 [session_id |-> request.final_session_id_for_turn, role |-> "assistant",
                  content |-> request.llm_response_fully_collected_text_for_log] >>
         ELSE persisted
    /\ pc' = "cleaned"
    /\ UNCHANGED streamVars
    /\ UNCHANGED <<exc, wire, connected, metrics, resp, request, accessLog,
                   errorPagesAsked, escaped>>
    /\ UNCHANGED <<entryVars, serverVars>>

\* logging_and_metrics_middleware: one access-log line after the handler returned
LoggingMiddleware ==
    /\ pc = "cleaned"
    /\ accessLog' = accessLog + 1
    /\ pc' = "logged"
    /\ UNCHANGED streamVars
    /\ UNCHANGED <<exc, wire, connected, metrics, resp, request, persisted,
                   errorPagesAsked, escaped>>
    /\ UNCHANGED <<entryVars, serverVars>>

\* the server sends the response the pipeline returned: a response that is
\* not prepared yet is started (status line and headers), its body written and
\* ended; a stream response already prepared and ended is left alone
Transport ==
    /\ pc = "logged"
    /\ wire' = IF ~resp.prepared /\ connected
               THEN Append(WireWrite(Append(wire, HeadEvent(resp)), resp.body), EofEvent)
               ELSE wire
    /\ pc' = "done"
    /\ UNCHANGED streamVars
    /\ UNCHANGED <<exc, connected, metrics, resp, request, persisted, accessLog,
                   errorPagesAsked, escaped>>
    /\ UNCHANGED <<entryVars, serverVars>>

Next ==
    \/ \E n \in 1..Len(text) : Delta(n)
    \/ \E t \in ToolTexts : ToolOutput(t)
    \/ \E tokens \in {0, 7}, hasContent \in BOOLEAN : Completed(tokens, hasContent)
    \/ EngineError
    \/ Disconnect
    \/ EndOfStream
    \/ HandlerTail
    \/ \E tier1 \in Tier1Outcomes : ErrorMiddleware(tier1)
    \/ CancelPropagates
    \/ SessionCleanup
    \/ LoggingMiddleware
    \/ Transport

Spec == Init /\ [][Next]_vars

\* the engine only streams text deltas
NextDeltas ==
    \/ \E n \in 1..Len(text) : Delta(n)
    \/ EngineError
    \/ Disconnect
    \/ EndOfStream
    \/ HandlerTail
    \/ \E tier1 \in Tier1Outcomes : ErrorMiddleware(tier1)
    \/ CancelPropagates
    \/ SessionCleanup
    \/ LoggingMiddleware
    \/ Transport

SpecDeltas == InitDeltas /\ [][NextDeltas]_vars

\* the engine streams a header block of several kinds of lines
SpecHeaders == InitWith(HeaderTexts) /\ [][NextDeltas]_vars

\* a request whose engine calls the local tools
NextTools ==
    \/ \E n \in 1..Len(text) : Delta(n)
    \/ \E t \in LocalToolResults : ToolOutput(t)
    \/ \E tokens \in {0, 7}, hasContent \in BOOLEAN : Completed(tokens, hasContent)
    \/ EngineError
    \/ Disconnect
    \/ EndOfStream
    \/ HandlerTail
    \/ \E tier1 \in Tier1Outcomes : ErrorMiddleware(tier1)
    \/ CancelPropagates
    \/ SessionCleanup
    \/ LoggingMiddleware
    \/ Transport

SpecTools == InitWith({T_Short, <<>>}) /\ [][NextTools]_vars

\* the paths of the requests: any page, and the liveness check of the probes
Paths == {Path_Root, Path_HealthCheck}

\* one request arrives for any of the paths
InitRouting ==
    /\ RequestInit({T_Ok, T_Short})
    /\ ResourcesIdle
    /\ route \in {Dispatch(p) : p \in Paths}
    /\ errorCall = NoErrorCall
    /\ StoreIdle
    /\ RegistrationIdle

SpecRouting == InitRouting /\ [][NextDeltas]_vars

\* the arguments the error responder may be called with
ErrorCalls ==
    {[pc |-> "called", tier1 |-> t, status_code |-> c, message |-> m,
      error_details |-> d, tiers |-> <<>>] :
        t \in Tier1Outcomes, c \in {404, 500, 503},
        m \in {Str_InternalServerError, Str_NotFound},
        d \in {Str_UnexpectedError, <<>>}}

\* a stage is about to call the error responder
InitErrors ==
    /\ RequestInit({<<>>})
    /\ ResourcesIdle
    /\ session_id_from_cookie = <<>>
    /\ route = Dispatch(Path_Root)
    /\ errorCall \in ErrorCalls
    /\ StoreIdle
    /\ RegistrationIdle

\* await send_llm_error_response_aiohttp(request, agent, status_code, message,
\* error_details)
SendErrorResponse ==
    /\ errorCall.pc = "called"
    /\ LET r == send_llm_error_response_aiohttp(errorCall.tier1, errorCall.status_code,
                                                errorCall.message,
                                                errorCall.error_details)
       IN /\ resp' = r
          /\ errorCall' = [errorCall EXCEPT
                             !.pc = IF r.kind = "none" THEN "raised" ELSE "returned",
                             !.tiers = TiersTaken(errorCall.tier1)]
    /\ errorPagesAsked' = errorPagesAsked + EngineRequests(errorCall.tier1)
    /\ UNCHANGED streamVars
    /\ UNCHANGED <<pc, exc, wire, connected, metrics, request, persisted, accessLog,
                   escaped, route>>
    /\ UNCHANGED serverVars

SpecErrors == InitErrors /\ [][SendErrorResponse]_vars

----------------------------------------------------------------------------
(* HttpConversationStore (src/src/server/conversation.py)                  *)
(* Tasks run on one event loop; a task can be suspended only where it      *)
(* awaits a lock (the manager lock or a session lock) and, as with a delay *)
(* injected into a critical section, while it holds a session lock. The    *)
(* code between two such points is one step.                               *)

\* number of tasks that call the store concurrently
NumWriters == 2

Writers == 1..NumWriters

Sessions == {"a", "b"}

\* the session ids in ascending order
SessionOrder == <<"a", "b">>

\* sorted(session_ids)
sorted(ids) ==
    LET Member(s) == s \in ids
    IN SelectSeq(SessionOrder, Member)

\* a snapshot that lists every session twice
session_ids_twice(keys) == sorted(keys) \o sorted(keys)

\* session_ids = list(self._histories.keys()); for session_id in sorted(session_ids)
session_ids_snapshot(keys) == sorted(keys)

\* one lock shared by all sessions
LockKeyShared(session_id) == "a"

\* self._session_locks[session_id]: the locks are keyed by session id
LockKey(session_id) == session_id

\* d[k] = v
Put(d, k, v) == [x \in (DOMAIN d) \cup {k} |-> IF x = k THEN v ELSE d[x]]

\* d.get(k, default)
Get(d, k, default) == IF k \in DOMAIN d THEN d[k] ELSE default

\* ChatMessage(role=role, content=content); the content names the request
ChatMessage(role, content) == [role |-> role, content |-> content]

\* the store calls of session_cleanup_middleware for one request
TurnOps(prompt_tokens_from_usage) ==
    <<"record_turn_user", "record_turn_assistant">> \o
    (IF prompt_tokens_from_usage > 0 THEN <<"update_token_count">> ELSE <<>>)

\* what a task does with the store: the turn of a request whose engine
\* reported its usage, or a replace_history call that empties the history
Programs ==
    { [ops |-> TurnOps(7), arg |-> <<>>],
      [ops |-> <<"replace_history">>, arg |-> <<>>] }

\* a file whose json.dump stopped half way
Torn == <<[role |-> "torn", content |-> 0]>>

\* a dump that loses the last message
json_dump_truncated(messages) ==
    IF messages = <<>> THEN <<>> ELSE SubSeq(messages, 1, Len(messages) - 1)

\* json.dump(history_obj.model_dump(), f): every message, in order
json_dump(messages) == messages

\* a lock object is alive while a task refers to it (a local variable of a
\* store method, or the flush's session_locks list)
Referenced(id, ws, fl) ==
    \/ \E w \in DOMAIN ws : ws[w].lock = id
    \/ \E j \in 1..Len(fl.locks) : fl.locks[j] = id

\* a dictionary that drops an entry as soon as no task holds its lock, also
\* while a task still waits on it
CollectUnheld(locks, ws, fl) ==
    [k \in {x \in DOMAIN locks :
               \/ \E w \in DOMAIN ws : ws[w].lock = locks[x] /\ ws[w].pc = "body"
               \/ \E j \in 1..fl.acquired : fl.locks[j] = locks[x]} |-> locks[k]]

\* WeakValueDictionary: an entry goes when its lock object dies
Collect(locks, ws, fl) ==
    [k \in {x \in DOMAIN locks : Referenced(locks[x], ws, fl)} |-> locks[k]]

\* asyncio.Lock(): an object distinct from every living lock
NewLock ==
    CHOOSE n \in 1..(NumWriters + Cardinality(Sessions) + 1) :
        /\ ~Referenced(n, writers, flush)
        /\ \A m \in 1..(n - 1) : Referenced(m, writers, flush)

HeldByWriter(id) == \E w \in Writers : writers[w].pc = "body" /\ writers[w].lock = id

HeldByFlush(id) == \E j \in 1..flush.acquired : flush.locks[j] = id

\* lock.locked()
Locked(id) == HeldByWriter(id) \/ HeldByFlush(id)

AllWritersDone == \A w \in Writers : writers[w].pc = "done"

\* on_shutdown: the flush comes first when conversations are saved
on_shutdown_skips_flush(save) == "cleanup"

on_shutdown_first(save) == IF save THEN "flush_start" ELSE "cleanup"

\* the handles registration left: the 1st and the 3rd configured server
RegistrationDone ==
    /\ outcomes = <<>>
    /\ local_tools_enabled = FALSE
    /\ reg = [path |-> "agent_setup", i |-> 1, pc |-> "done"]
    /\ mcp_servers = <<1, 3>>
    /\ mcp_server_lifecycles = <<1, 3>>
    /\ failures = {}
    /\ agent = TRUE

\* the tasks differ only in their names: they are listed in the order of
\* their session and program, and the first one uses the first session
Rank(t) ==
    (IF t.session_id = SessionOrder[1] THEN 0 ELSE 2)
    + (IF t.ops = TurnOps(7) THEN 0 ELSE 1)

\* no request of the single-request pipeline is in flight
RequestIdle ==
    /\ RequestInit({<<>>})
    /\ session_id_from_cookie = <<>>
    /\ EntryIdle

\* the application is running: tasks are about to call the store, each with
\* one of the given programs
InitStoreWith(programs) ==
    /\ RequestIdle
    /\ ResourcesIdle
    /\ RegistrationDone
    /\ histories = EmptyDict
    /\ token_counts = EmptyDict
    /\ session_locks = EmptyDict
    /\ writers \in [Writers ->
                      {[session_id |-> s, ops |-> p.ops, arg |-> p.arg, i |-> 1,
                        pc |-> "call", lock |-> 0] :
                       s \in Sessions, p \in programs}]
    /\ \A w \in 1..(NumWriters - 1) : Rank(writers[w]) <= Rank(writers[w + 1])
    /\ writers[1].session_id = SessionOrder[1]
    /\ flush = [pc |-> "idle", session_ids |-> <<>>, locks |-> <<>>, acquired |-> 0,
                k |-> 1, returned |-> FALSE, quiet |-> FALSE]
    /\ files = EmptyDict
    /\ writtenUnlocked = {}
    /\ writeFailed = {}
    /\ save_conversations \in BOOLEAN
    /\ closed = <<>>
    /\ teardown = TeardownIdle

InitStore == InitStoreWith(Programs)

\* what a step of a store method leaves alone besides the store's dicts
storeFrame == <<requestVars, regVars, save_conversations, teardownVars, resourceVars>>

\* _get_session_lock looks the lock up without the manager lock
FirstLook(t, locks) ==
    LET key == LockKey(t.session_id)
    IN IF key \in DOMAIN locks
       THEN [t EXCEPT !.lock = locks[key], !.pc = "acquire"]
       ELSE [t EXCEPT !.pc = "manager"]

\* the task starts and calls its first store method
WriterCall(w) ==
    /\ writers[w].pc = "call"
    /\ writers' = [writers EXCEPT ![w] = FirstLook(@, session_locks)]
    /\ UNCHANGED <<histories, token_counts, session_locks, flush, files,
                   writtenUnlocked, writeFailed>>
    /\ UNCHANGED storeFrame

\* _get_session_lock under _locks_manager_lock: the second look, then the new
\* lock; the manager lock is held over no await, so it is always free here
WriterManager(w) ==
    /\ writers[w].pc = "manager"
    /\ LET key == LockKey(writers[w].session_id)
           id == IF key \in DOMAIN session_locks THEN session_locks[key] ELSE NewLock
       IN /\ writers' = [writers EXCEPT ![w].lock = id, ![w].pc = "acquire"]
          /\ session_locks' = Put(session_locks, key, id)
    /\ UNCHANGED <<histories, token_counts, flush, files, writtenUnlocked, writeFailed>>
    /\ UNCHANGED storeFrame

\* async with session_lock: the lock is taken once it is free
WriterAcquire(w) ==
    /\ writers[w].pc = "acquire"
    /\ ~Locked(writers[w].lock)
    /\ writers' = [writers EXCEPT ![w].pc = "body"]
    /\ UNCHANGED <<histories, token_counts, session_locks, flush, files,
                   writtenUnlocked, writeFailed>>
    /\ UNCHANGED storeFrame

\* an add_message that puts the new message in front of the earlier ones
add_message_in_front(messages, role, content) ==
    <<ChatMessage(role, content)>> \o messages

\* ConversationHistory.add_message: self.messages.append(ChatMessage(...))
add_message(messages, role, content) == Append(messages, ChatMessage(role, content))

\* HttpConversationStore.get_token_count: self._token_counts.get(session_id, 0)
get_token_count(counts, session_id) == Get(counts, session_id, 0)

\* a replace_history that leaves the stored count of the session as it was
replace_history_keeps_count(counts, session_id) ==
    Put(counts, session_id, get_token_count(counts, session_id))

\* replace_history: self._token_counts[session_id] = 0
replace_history_token_counts(counts, session_id) == Put(counts, session_id, 0)

\* the body of record_turn, replace_history or update_token_count, the release
\* of the lock, the return to the caller and the caller's next call of the
\* store up to its first look for the lock
WriterBody(w) ==
    /\ writers[w].pc = "body"
    /\ LET t == writers[w]
           op == t.ops[t.i]
           sid == t.session_id
           ws == [writers EXCEPT ![w].lock = 0,
                                 ![w].i = @ + 1,
                                 ![w].pc = IF t.i = Len(t.ops) THEN "done" ELSE "call"]
           locks == Collect(session_locks, ws, flush)
       IN /\ histories' =
               CASE op = "record_turn_user" ->
                      Put(histories, sid,
                          add_message(Get(histories, sid, <<>>), "user", w))
                 [] op = "record_turn_assistant" ->
                      Put(histories, sid,
                          add_message(Get(histories, sid, <<>>), "assistant", w))
                 [] op = "replace_history" -> Put(histories, sid, t.arg)
                 [] OTHER -> histories
          /\ token_counts' =
               CASE op = "update_token_count" -> Put(token_counts, sid, 7)
                 [] op = "replace_history" ->
                      replace_history_token_counts(token_counts, sid)
                 [] OTHER -> token_counts
          /\ writers' = IF ws[w].pc = "call"
                         THEN [ws EXCEPT ![w] = FirstLook(@, locks)]
                         ELSE ws
          /\ session_locks' = locks
    /\ UNCHANGED <<flush, files, writtenUnlocked, writeFailed>>
    /\ UNCHANGED storeFrame

\* where the shutdown task is after the k-th handle of the lifecycle list:
\* in the loop over the handles, or past it
NoHandleLeft(k) == IF k >= Len(mcp_server_lifecycles) THEN "done" ELSE "cleanup"

\* on_shutdown is called; with conversations saved it enters
\* save_all_sessions_on_shutdown: the store is built with save_to_disk =
\* config.save_conversations; an error of os.makedirs is caught by the outer
\* except and the flush returns
ShutdownBegins(makedirs_ok) ==
    /\ reg.path = "agent_setup"
    /\ flush.pc = "idle"
    /\ flush' =
         IF on_shutdown_first(save_conversations) = "cleanup"
         THEN [flush EXCEPT !.pc = NoHandleLeft(0)]
         ELSE IF ~save_conversations \/ ~makedirs_ok
         THEN [flush EXCEPT !.pc = NoHandleLeft(0), !.returned = TRUE]
         ELSE [flush EXCEPT !.pc = "flush_start"]
    /\ UNCHANGED <<histories, token_counts, session_locks, writers, files,
                   writtenUnlocked, writeFailed>>
    /\ UNCHANGED storeFrame

\* for session_id in sorted(session_ids): await self._get_session_lock(...),
\* as far as the first look finds the lock; with no session in the snapshot
\* nothing is awaited before `if not self._histories: return`
RECURSIVE GetLocks(_, _)
GetLocks(fl, locks) ==
    IF fl.session_ids = <<>>
    THEN [fl EXCEPT !.pc = "cleanup", !.returned = TRUE]
    ELSE IF Len(fl.locks) = Len(fl.session_ids)
    THEN [fl EXCEPT !.pc = "acquire"]
    ELSE LET key == LockKey(fl.session_ids[Len(fl.locks) + 1])
         IN IF key \in DOMAIN locks
            THEN GetLocks([fl EXCEPT !.locks = Append(@, locks[key])], locks)
            ELSE [fl EXCEPT !.pc = "getlock_manager"]

\* the snapshot of the session ids under the manager lock
FlushStart ==
    /\ flush.pc = "flush_start"
    /\ flush' = GetLocks([flush EXCEPT
                            !.session_ids = session_ids_snapshot(DOMAIN histories),
                            !.quiet = AllWritersDone],
                         session_locks)
    /\ UNCHANGED <<histories, token_counts, session_locks, writers, files,
                   writtenUnlocked, writeFailed>>
    /\ UNCHANGED storeFrame

\* _get_session_lock under the manager lock, called by the flush
FlushGetLockManager ==
    /\ flush.pc = "getlock_manager"
    /\ LET key == LockKey(flush.session_ids[Len(flush.locks) + 1])
           id == IF key \in DOMAIN session_locks THEN session_locks[key] ELSE NewLock
           locks == Put(session_locks, key, id)
       IN /\ flush' = GetLocks([flush EXCEPT !.locks = Append(@, id)], locks)
          /\ session_locks' = locks
    /\ UNCHANGED <<histories, token_counts, writers, files, writtenUnlocked,
                   writeFailed>>
    /\ UNCHANGED storeFrame

\* await session_lock.acquire(), in the order of the sorted session ids
FlushAcquire ==
    /\ flush.pc = "acquire"
    /\ ~Locked(flush.locks[flush.acquired + 1])
    /\ flush' = [flush EXCEPT !.acquired = @ + 1,
                              !.pc = IF flush.acquired + 1 = Len(flush.locks)
                                     THEN "write" ELSE "acquire"]
    /\ UNCHANGED <<histories, token_counts, session_locks, writers, files,
                   writtenUnlocked, writeFailed>>
    /\ UNCHANGED storeFrame

\* the loop over self._histories.items() (no await in it): a session without
\* messages is skipped, a failing write (here of the first session's file
\* at most) is logged and leaves a torn file;
\* then the finally block releases every acquired lock and the flush returns
FlushWrite(bad) ==
    /\ flush.pc = "write"
    /\ LET towrite == {s \in DOMAIN histories : histories[s] # <<>>}
           fl == [flush EXCEPT !.pc = "cleanup", !.returned = TRUE, !.acquired = 0,
                               !.locks = <<>>, !.session_ids = <<>>]
       IN /\ bad \subseteq towrite
          /\ files' = [s \in (DOMAIN files) \cup towrite |->
                         IF s \in bad THEN Torn
                         ELSE IF s \in towrite THEN json_dump(histories[s])
                         ELSE files[s]]
          /\ writeFailed' = bad
          /\ writtenUnlocked' =
               {s \in towrite : ~(/\ LockKey(s) \in DOMAIN session_locks
                                  /\ HeldByFlush(session_locks[LockKey(s)]))}
          /\ flush' = fl
          /\ session_locks' = Collect(session_locks, writers, fl)
    /\ UNCHANGED <<histories, token_counts, writers>>
    /\ UNCHANGED storeFrame

\* an exception of cleanup() that leaves the loop over the handles
teardown_error_escapes == "raise"

\* on_shutdown and WebServer.cleanup: the try/except around each cleanup()
\* logs the exception and the loop goes on with the next handle
on_teardown_error == "continue"

\* await server.cleanup() for the handle `h`, inside the try: the teardown is
\* invoked; the cleanup() of a dead server raises
TeardownHandle(h) ==
    LET escapes == h \in teardown.dead /\ on_teardown_error = "raise"
    IN [closed |-> Append(closed, h),
        teardown |-> [teardown EXCEPT
                        !.logged = IF h \in teardown.dead /\ ~escapes
                                   THEN @ \cup {h} ELSE @,
                        !.raised = @ \/ escapes],
        escapes |-> escapes]

\* on_shutdown: await mcp_server.cleanup() for the next handle; an exception
\* of cleanup() is logged and the loop goes on; after the last handle
\* on_shutdown returns (the lifecycle list keeps its handles)
ServerCleanup ==
    /\ flush.pc = "cleanup"
    /\ flush.k <= Len(mcp_server_lifecycles)
    /\ LET r == TeardownHandle(mcp_server_lifecycles[flush.k])
       IN /\ closed' = r.closed
          /\ teardown' = r.teardown
          /\ flush' = [flush EXCEPT !.k = @ + 1,
                                    !.pc = IF r.escapes THEN "raised"
                                           ELSE NoHandleLeft(flush.k)]
    /\ UNCHANGED <<histories, token_counts, session_locks, writers, files,
                   writtenUnlocked, writeFailed, save_conversations>>
    /\ UNCHANGED <<requestVars, regVars, resourceVars>>

WriterStep(w) ==
    \/ WriterCall(w)
    \/ WriterManager(w)
    \/ WriterAcquire(w)
    \/ WriterBody(w)

FlushStep ==
    \/ \E makedirs_ok \in BOOLEAN : ShutdownBegins(makedirs_ok)
    \/ FlushStart
    \/ FlushGetLockManager
    \/ FlushAcquire
    \/ \E bad \in {{}, {SessionOrder[1]}} : FlushWrite(bad)
    \/ ServerCleanup

NextStore ==
    \/ \E w \in Writers : WriterStep(w)
    \/ FlushStep

SpecStore == InitStore /\ [][NextStore]_vars

\* the event loop runs every task that is ready
SpecStoreFair ==
    /\ SpecStore
    /\ \A w \in Writers : WF_vars(WriterStep(w))
    /\ WF_vars(FlushStep)

\* the history a caller of replace_history hands over: one system message
ReplacementHistory == <<ChatMessage("system", 0)>>

\* the turn of a request whose engine reported its usage, or a
\* replace_history call with a history of one message
ReplacePrograms ==
    { [ops |-> TurnOps(7), arg |-> <<>>],
      [ops |-> <<"replace_history">>, arg |-> ReplacementHistory] }

\* the store while the application runs: turns and replacements only
SpecReplace == InitStoreWith(ReplacePrograms) /\ [][\E w \in Writers : WriterStep(w)]_vars

----------------------------------------------------------------------------
(* Properties                                                              *)

RECURSIVE CountEvents(_, _)
CountEvents(w, t) ==
    IF w = <<>> THEN 0
    ELSE (IF Head(w).t = t THEN 1 ELSE 0) + CountEvents(Tail(w), t)

\* every body byte the transport has sent, in order
RECURSIVE WireBody(_)
WireBody(w) ==
    IF w = <<>> THEN <<>>
    ELSE (IF Head(w).t = "body" THEN Head(w).data ELSE <<>>) \o WireBody(Tail(w))

FramingHeaderNames ==
    { <<"c", "o", "n", "t", "e", "n", "t", "-", "l", "e", "n", "g", "t", "h">>,
      <<"t", "r", "a", "n", "s", "f", "e", "r", "-", "e", "n", "c", "o", "d", "i", "n", "g">>,
      <<"c", "o", "n", "n", "e", "c", "t", "i", "o", "n">> }

\* the status line of a header block has a missing or non-numeric status code
BadStatusLine(header_section) == ~ParseStatusLine(HeaderLines(header_section)[1]).ok

\* C1: for a request whose client stays connected, the transport is handed
\* exactly one response - one status line and header block first, an end of
\* response last, no second status line - and no exception leaves the
\* outermost pipeline stage.
C1_ExactlyOneResponse ==
    (pc = "done" /\ connected) =>
        /\ ~escaped
        /\ CountEvents(wire, "head") = 1
        /\ CountEvents(wire, "eof") = 1
        /\ wire[1].t = "head"
        /\ wire[Len(wire)].t = "eof"

\* C2: however 'HTTP/1.1 200 OK<CRLF>Content-Type: text/plain<CRLF><CRLF>Hello'
\* is split into non-empty deltas, the response is prepared with status 200 and
\* the single header Content-Type: text/plain, and the body written is Hello.
C2_ChunkingInvariance ==
    (text = T_Hello /\ pc = "returned" /\ connected) =>
        /\ wire = << [t |-> "head", status |-> 200, reason |-> Str_OK,
                      headers |-> << <<Str_ContentType, Str_text_plain>> >>,
                      cookie |-> <<>>, data |-> <<>>],
                     BodyEvent(Str_Hello) >>
        /\ ctx.response.prepared
        /\ ctx.response.status = 200

\* C2 witness: the whole text was delivered, a delta ended inside the CRLF CRLF
\* separator, and the client got the body Hello.
C2_Witness ==
    /\ text = T_Hello
    /\ pc = "returned"
    /\ connected
    /\ cutInSeparator
    /\ WireBody(wire) = Str_Hello

\* C3: once headers have been sent, the body bytes written are exactly the text
\* given to the Transcoder after the header/body separator: the remainder of
\* the buffer first, then every later chunk, nothing dropped or altered.
C3_BodyPassThrough ==
    (bodyStart >= 0 /\ connected /\ pc \in {"stream", "returned"}
        /\ CountEvents(wire, "head") > 0) =>
        WireBody(wire) = SubSeq(fed, bodyStart + 1, Len(fed))

\* C4: no Content-Length, Transfer-Encoding or Connection header, in any letter
\* case, is set on the Transcoder's response from engine or tool text.
C4_NoFramingHeaders ==
    \A name \in FramingHeaderNames : ~HasHeader(ctx.response.headers, name)

\* C5: a header block whose status line has a missing or non-numeric status
\* code is sent with status 200, the engine's headers and the body remainder.
C5_BadStatusDefaultsTo200 ==
    (bodyStart >= 0 /\ BadStatusLine(ctx.header_section) /\ connected
        /\ pc \in {"stream", "returned"}) =>
        /\ CountEvents(wire, "head") = 1
        /\ wire[1].status = 200
        /\ WireBody(wire) = SubSeq(fed, bodyStart + 1, Len(fed))

\* C6: a stream that ends with no separator seen and a buffer that does not
\* start with a status-line token makes the Transcoder send nothing and return
\* an unprepared response (NoValidResponse).
C6_NoValidResponse ==
    (pc = "returned" /\ bodyStart = -1 /\ ~StartsWith(fed, Str_HTTP)) =>
        /\ wire = <<>>
        /\ ~ctx.response.prepared

\* C7: a stream that ends while still buffering, with a buffer that begins
\* with a status line, is answered with the status and headers parsed from the
\* whole buffer and an empty body.
C7_HeadersOnlyResponse ==
    (pc = "returned" /\ bodyStart = -1 /\ connected /\ StartsWith(fed, Str_HTTP)
        /\ ~BadStatusLine(fed)) =>
        /\ CountEvents(wire, "head") = 1
        /\ wire[1].status = ParseStatusLine(HeaderLines(fed)[1]).status_code
        /\ wire[1].headers = ApplyHeaders(<<>>, ParseHeaders(Tail(HeaderLines(fed)), <<>>))
        /\ WireBody(wire) = <<>>

\* C8: after a header flush or body write has failed because the client is
\* gone, the Transcoder processes no further engine event and attempts no
\* further sink operation.
C8_StopsAfterWriteFailure ==
    eventsAfterFail = 0 /\ late = 0

\* C9: a Transcoder run that met a client disconnect ends by returning the
\* ClientDisconnected outcome with the raw text log and the metrics to its
\* caller, not by raising.
C9_DisconnectIsReturned ==
    (ctx.model_error_indicator_for_recording = "client_disconnected" /\ pc # "stream") =>
        /\ metrics.returned
        /\ metrics.model_error_indicator_for_recording = "client_disconnected"

\* C10: at the end of a Transcoder run the raw text log is the concatenation of
\* every text delta the engine emitted, before or after the headers were sent.
C10_RawLogIsAllDeltas ==
    (pc # "stream") => ctx.llm_response_fully_collected_text_for_log = deltas

----------------------------------------------------------------------------
(* Tool-server registration at startup                                     *)
(*   src/src/server/agent_setup.py   initialize_mcp_servers_and_agent      *)
(*   src/src/server/web_resource.py  WebServer.initialize_agent, start     *)

\* number of configured tool servers
NumServers == 3

\* the handle of the local tools server
LocalTools == 0

\* what starting a configured server does: it connects and lists tools, it
\* connects and lists no tool, connecting raises, listing the tools raises,
\* or its type is none of stdio, sse, streamable_http
Outcomes == {"ok", "no_tools", "connect_fails", "list_fails", "unsupported"}

\* a start failure that leaves initialize_mcp_servers_and_agent
agent_setup_failure_escapes == "raise"

\* initialize_mcp_servers_and_agent: try/except Exception around the start of
\* each server logs the failure and goes on with the next one
agent_setup_on_failure == "continue"

\* WebServer.initialize_agent: connect() and list_tools() are awaited outside
\* any try, so their exception leaves initialize_agent and start
web_resource_on_failure == "raise"

InitRegistration ==
    /\ RequestIdle
    /\ ResourcesIdle
    /\ StoreIdle
    /\ reg \in {[path |-> p, i |-> 1, pc |-> "servers"] : p \in {"agent_setup", "web_resource"}}
    /\ local_tools_enabled \in BOOLEAN
    /\ reg.path = "web_resource" => ~local_tools_enabled
    /\ outcomes \in [0..NumServers -> Outcomes]
    /\ outcomes[LocalTools] # "unsupported"
    /\ ~local_tools_enabled => outcomes[LocalTools] = "ok"
    /\ mcp_servers = <<>>
    /\ mcp_server_lifecycles = <<>>
    /\ failures = {}
    /\ agent = FALSE

\* the lists after the start of server `h` in initialize_mcp_servers_and_agent:
\* __aenter__, lifecycles.append, list_tools; a server without tools is closed
\* and popped again; a server whose list_tools raised stays in the lifecycles
AgentSetupStart(h, servers, lifecycles, logged) ==
    CASE outcomes[h] = "ok" ->
           [mcp_servers |-> Append(servers, h), lifecycles |-> Append(lifecycles, h),
            failures |-> logged, exited |-> <<>>, raised |-> FALSE]
      [] outcomes[h] = "no_tools" ->
           [mcp_servers |-> servers, lifecycles |-> lifecycles, failures |-> logged,
            exited |-> <<h>>, raised |-> FALSE]
      [] outcomes[h] = "connect_fails" ->
           [mcp_servers |-> servers, lifecycles |-> lifecycles,
            failures |-> logged \cup {h}, exited |-> <<>>,
            raised |-> agent_setup_on_failure = "raise"]
      [] outcomes[h] = "list_fails" ->
           [mcp_servers |-> servers, lifecycles |-> Append(lifecycles, h),
            failures |-> logged \cup {h}, exited |-> <<>>,
            raised |-> agent_setup_on_failure = "raise"]
      [] OTHER ->
           [mcp_servers |-> servers, lifecycles |-> lifecycles,
            failures |-> logged \cup {h}, exited |-> <<>>, raised |-> FALSE]

\* one round of `for mcp_cfg in config.mcp_servers`
AgentSetupServer ==
    /\ reg.path = "agent_setup"
    /\ reg.pc = "servers"
    /\ reg.i <= NumServers
    /\ LET r == AgentSetupStart(reg.i, mcp_servers, mcp_server_lifecycles, failures)
       IN /\ mcp_servers' = r.mcp_servers
          /\ mcp_server_lifecycles' = r.lifecycles
          /\ failures' = r.failures
          /\ closed' = closed \o r.exited
          /\ reg' = IF r.raised THEN [reg EXCEPT !.pc = "raised"]
                    ELSE [reg EXCEPT !.i = @ + 1]
    /\ UNCHANGED <<outcomes, local_tools_enabled, agent, teardown>>
    /\ UNCHANGED <<requestVars, storeVars, resourceVars>>

\* the local tools server, if enabled, under its own try/except; then the
\* agent is created with the servers that started and on_startup returns
AgentSetupFinish ==
    /\ reg.path = "agent_setup"
    /\ reg.pc = "servers"
    /\ reg.i > NumServers
    /\ LET r == IF local_tools_enabled
                THEN AgentSetupStart(LocalTools, mcp_servers, mcp_server_lifecycles,
                                     failures)
                ELSE [mcp_servers |-> mcp_servers, lifecycles |-> mcp_server_lifecycles,
                      failures |-> failures, exited |-> <<>>, raised |-> FALSE]
       IN /\ mcp_servers' = r.mcp_servers
          /\ mcp_server_lifecycles' = r.lifecycles
          /\ failures' = r.failures
          /\ closed' = closed \o r.exited
    /\ agent' = TRUE
    /\ reg' = [reg EXCEPT !.pc = "done"]
    /\ UNCHANGED <<outcomes, local_tools_enabled, teardown>>
    /\ UNCHANGED <<requestVars, storeVars, resourceVars>>

\* one round of `for i, mcp_cfg_dict in enumerate(mcp_servers_config)` in
\* WebServer.initialize_agent: a server that lists no tool is kept as well
WebServerInitServer ==
    /\ reg.path = "web_resource"
    /\ reg.pc = "servers"
    /\ reg.i <= NumServers
    /\ LET o == outcomes[reg.i]
           fails == o \in {"connect_fails", "list_fails"}
       IN /\ mcp_servers' = IF o \in {"ok", "no_tools"}
                            THEN Append(mcp_servers, reg.i) ELSE mcp_servers
          /\ mcp_server_lifecycles' = IF o \in {"ok", "no_tools"}
                                      THEN Append(mcp_server_lifecycles, reg.i)
                                      ELSE mcp_server_lifecycles
          /\ failures' = IF o = "unsupported" THEN failures \cup {reg.i} ELSE failures
          /\ reg' = IF fails /\ web_resource_on_failure = "raise"
                    THEN [reg EXCEPT !.pc = "raised"]
                    ELSE [reg EXCEPT !.i = @ + 1]
    /\ UNCHANGED <<outcomes, local_tools_enabled, agent>>
    /\ UNCHANGED <<requestVars, storeVars, teardownVars, resourceVars>>

\* initialize_agent creates the agent and returns; WebServer.start sets up
\* the runner and starts the site
WebServerStart ==
    /\ reg.path = "web_resource"
    /\ reg.pc = "servers"
    /\ reg.i > NumServers
    /\ agent' = TRUE
    /\ reg' = [reg EXCEPT !.pc = "done"]
    /\ UNCHANGED <<outcomes, local_tools_enabled, mcp_servers, mcp_server_lifecycles,
                   failures>>
    /\ UNCHANGED <<requestVars, storeVars, teardownVars, resourceVars>>

NextRegistration ==
    \/ AgentSetupServer
    \/ AgentSetupFinish
    \/ WebServerInitServer
    \/ WebServerStart

SpecRegistration == InitRegistration /\ [][NextRegistration]_vars

----------------------------------------------------------------------------
(* Tool-server shutdown                                                    *)
(*   src/src/app.py                  on_shutdown                           *)
(*   src/src/server/web_resource.py  WebServer.stop, WebServer.cleanup     *)

\* how often the owner calls the shutdown again after it returned
MaxAgain == 1

\* the handles of a set of servers in the order of their configuration
HandleList(S) ==
    CHOOSE q \in [1..Cardinality(S) -> S] :
        \A i, j \in 1..Cardinality(S) : i < j => q[i] < q[j]

\* registration is over and no request is in flight: any of the configured
\* servers may have been registered, and any of those may have died since
InitShutdown ==
    /\ RequestIdle
    /\ ResourcesIdle
    /\ histories = EmptyDict
    /\ token_counts = EmptyDict
    /\ session_locks = EmptyDict
    /\ writers = <<>>
    /\ flush = [pc |-> "idle", session_ids |-> <<>>, locks |-> <<>>, acquired |-> 0,
                k |-> 1, returned |-> FALSE, quiet |-> FALSE]
    /\ files = EmptyDict
    /\ writtenUnlocked = {}
    /\ writeFailed = {}
    /\ save_conversations = FALSE
    /\ closed = <<>>
    /\ outcomes = <<>>
    /\ local_tools_enabled = FALSE
    /\ reg \in {[path |-> p, i |-> 1, pc |-> "done"] : p \in {"agent_setup", "web_resource"}}
    /\ \E S \in SUBSET (1..NumServers) :
         /\ mcp_servers = HandleList(S)
         /\ mcp_server_lifecycles = HandleList(S)
         /\ \E D \in SUBSET S : teardown = [TeardownIdle EXCEPT !.dead = D]
    /\ failures = {}
    /\ agent = TRUE

\* the owner calls the shutdown once more after it returned
ShutdownCalledAgain ==
    /\ flush.pc = "done"
    /\ teardown.again < MaxAgain
    /\ teardown' = [teardown EXCEPT !.again = @ + 1]
    /\ flush' = [flush EXCEPT !.pc = "idle", !.k = 1, !.returned = FALSE]
    /\ UNCHANGED <<histories, token_counts, session_locks, writers, files,
                   writtenUnlocked, writeFailed, save_conversations, closed>>
    /\ UNCHANGED <<requestVars, regVars, resourceVars>>

\* WebServer.cleanup(force): await self.stop() outside any try; with force
\* every round of the loop is `pass`, so the list is cleared with no handle
\* torn down; without the loop awaits the first cleanup()
WebServerCleanupBegins(force, stop_ok) ==
    /\ reg.path = "web_resource"
    /\ flush.pc = "idle"
    /\ teardown' = [teardown EXCEPT !.force = @ \/ (stop_ok /\ force)]
    /\ flush' = [flush EXCEPT !.pc = IF ~stop_ok THEN "stop_raised"
                                     ELSE IF force \/ mcp_server_lifecycles = <<>>
                                     THEN "done" ELSE "web_cleanup"]
    /\ mcp_server_lifecycles' = IF stop_ok /\ force THEN <<>> ELSE mcp_server_lifecycles
    /\ UNCHANGED <<histories, token_counts, session_locks, writers, files,
                   writtenUnlocked, writeFailed, save_conversations, closed>>
    /\ UNCHANGED <<outcomes, local_tools_enabled, reg, mcp_servers, failures, agent>>
    /\ UNCHANGED <<requestVars, resourceVars>>

\* WebServer.cleanup: await server.cleanup() for the next handle, both
\* except clauses log and go on; after the last handle
\* self.mcp_server_lifecycles.clear()
WebServerCleanupServer ==
    /\ flush.pc = "web_cleanup"
    /\ flush.k <= Len(mcp_server_lifecycles)
    /\ LET r == TeardownHandle(mcp_server_lifecycles[flush.k])
           last == flush.k = Len(mcp_server_lifecycles)
       IN /\ closed' = r.closed
          /\ teardown' = r.teardown
          /\ flush' = [flush EXCEPT !.k = @ + 1,
                                    !.pc = IF r.escapes THEN "raised"
                                           ELSE IF last THEN "done" ELSE @]
          /\ mcp_server_lifecycles' = IF last /\ ~r.escapes THEN <<>>
                                      ELSE mcp_server_lifecycles
    /\ UNCHANGED <<histories, token_counts, session_locks, writers, files,
                   writtenUnlocked, writeFailed, save_conversations>>
    /\ UNCHANGED <<outcomes, local_tools_enabled, reg, mcp_servers, failures, agent>>
    /\ UNCHANGED <<requestVars, resourceVars>>

NextShutdown ==
    \/ \E makedirs_ok \in BOOLEAN : ShutdownBegins(makedirs_ok)
    \/ ServerCleanup
    \/ \E force, stop_ok \in BOOLEAN : WebServerCleanupBegins(force, stop_ok)
    \/ WebServerCleanupServer
    \/ ShutdownCalledAgain

SpecShutdown == InitShutdown /\ [][NextShutdown]_vars

----------------------------------------------------------------------------
(* Web server resources                                                    *)
(*   src/src/server/core_services.py  start_web_server,                    *)
(*                                    destroy_web_resource                 *)
(*   src/src/server/web_resource.py   WebServer.start, stop, cleanup       *)

\* what a tool call of core_services leaves alone
resourceFrame == <<requestVars, storeVars, teardownVars, regVars>>

\* start_server_task sets web_servers[resource_id]["status"] as its last
\* statement, in the try body ("running") or in the except block ("failed");
\* once the entry has been popped that is a KeyError, in the except block
\* too, and the exception leaves the task
TaskEnds(res, status) ==
    IF res.status = "absent"
    THEN [res EXCEPT !.task = "crashed"]
    ELSE [res EXCEPT !.status = status, !.task = "ended"]

\* start_web_server: a resource that is neither starting nor running gets
\* the status "starting" and a background task running WebServer.start()
StartWebServer(r) ==
    /\ web_servers[r].status \in {"created", "failed"}
    /\ web_servers' = [web_servers EXCEPT ![r].status = "starting",
                                          ![r].task = "scheduled"]
    /\ UNCHANGED resourceFrame

\* the task runs WebServer.start() as far as `await self.runner.setup()`:
\* add_route (which raises on an application that a runner has set up
\* before) and initialize_agent, which may raise; then the runner is assigned
TaskInitializeAgent(r, ok) ==
    /\ web_servers[r].task = "scheduled"
    /\ ok => ~web_servers[r].runner
    /\ web_servers' =
         [web_servers EXCEPT ![r] = IF ok
                                    THEN [@ EXCEPT !.runner = TRUE, !.task = "setup"]
                                    ELSE TaskEnds(@, "failed")]
    /\ UNCHANGED resourceFrame

\* the rest of WebServer.start(): the site is assigned and started, which
\* may raise (the port is taken); then the task records the status
TaskSiteStart(r, ok) ==
    /\ web_servers[r].task = "setup"
    /\ web_servers' =
         [web_servers EXCEPT ![r] =
             IF ok
             THEN TaskEnds([@ EXCEPT !.site = TRUE, !.listening = TRUE], "running")
             ELSE TaskEnds([@ EXCEPT !.site = TRUE], "failed")]
    /\ UNCHANGED resourceFrame

\* destroy_web_resource: the entry is popped and cleanup() is awaited, whose
\* stop() stops the site if one is assigned (`if self.site:`) and cleans the
\* runner up if one is assigned; the start task is not cancelled
DestroyWebResource(r) ==
    /\ web_servers[r].status # "absent"
    /\ web_servers' =
         [web_servers EXCEPT ![r].status = "absent",
                             ![r].listening = IF web_servers[r].site THEN FALSE ELSE @,
                             ![r].destroy = "cleanup"]
    /\ UNCHANGED resourceFrame

\* cleanup() is over and destroy_web_resource returns
DestroyReturns(r) ==
    /\ web_servers[r].destroy = "cleanup"
    /\ web_servers' = [web_servers EXCEPT ![r].destroy = "returned"]
    /\ UNCHANGED resourceFrame

\* the resources have been created; no request and no shutdown is under way
InitResources ==
    /\ RequestIdle
    /\ StoreIdle
    /\ RegistrationIdle
    /\ ResourcesIdle

NextResources ==
    \E r \in ResourceIds :
        \/ StartWebServer(r)
        \/ \E ok \in BOOLEAN : TaskInitializeAgent(r, ok)
        \/ \E ok \in BOOLEAN : TaskSiteStart(r, ok)
        \/ DestroyWebResource(r)
        \/ DestroyReturns(r)

SpecResources == InitResources /\ [][NextResources]_vars

----------------------------------------------------------------------------
(* The store, shutdown and registration claims                             *)

FlushRunning == flush.pc \in {"flush_start", "getlock_manager", "acquire", "write"}

\* C12: a task that holds or waits for the lock of session A never delays an
\* operation on another session B: while no flush is running, a task that
\* wants B's lock finds it free unless another task working on B holds it.
C12_SessionsDoNotBlockEachOther ==
    \A w \in Writers :
        (/\ writers[w].pc = "acquire"
         /\ ~FlushRunning
         /\ ~\E v \in Writers : /\ v # w
                                /\ writers[v].session_id = writers[w].session_id
                                /\ writers[v].pc = "body")
        => ~Locked(writers[w].lock)

\* two tasks are inside their critical sections on different sessions at once
C12_Witness ==
    /\ ~FlushRunning
    /\ \E v, w \in Writers :
          /\ writers[v].session_id # writers[w].session_id
          /\ writers[v].pc = "body"
          /\ writers[w].pc = "body"
          /\ writers[w].ops[writers[w].i] = "update_token_count"

C14_FlushAndWritersTerminate ==
    <>(/\ flush.pc = "done"
       /\ flush.acquired = 0
       /\ AllWritersDone
       /\ \A k \in DOMAIN session_locks : ~Locked(session_locks[k]))

\* the flush holds the first session's lock and waits for the second one,
\* which a writer holds, while another writer waits for the first
C14_Witness ==
    /\ flush.pc = "acquire"
    /\ flush.acquired = 1
    /\ HeldByWriter(flush.locks[2])
    /\ \E w \in Writers : writers[w].pc = "acquire" /\ HeldByFlush(writers[w].lock)

C17_AdoptedIdSetsCookie ==
    [][(/\ ctx.session_id_from_tool_call # <<>>
        /\ CountEvents(wire, "head") = 0
        /\ CountEvents(wire', "head") > 0)
       => \A i \in 1..Len(wire') :
             wire'[i].t = "head" => wire'[i].cookie = ctx.session_id_from_tool_call]_vars

\* C18: on shutdown with conversation saving enabled, the flush has returned
\* before the teardown of the first tool server begins; no tool-server handle
\* is closed before or during the flush.
C18_FlushBeforeTeardown ==
    (save_conversations /\ closed # <<>>) => flush.returned

\* a tool server is closed after a flush that wrote a file
C18_Witness ==
    /\ save_conversations
    /\ closed # <<>>
    /\ flush.returned
    /\ files # EmptyDict

\* the configured servers that started and offer tools, in configuration order
RECURSIVE StartedFrom(_)
StartedFrom(h) ==
    IF h > NumServers THEN <<>>
    ELSE (IF outcomes[h] = "ok" THEN <<h>> ELSE <<>>) \o StartedFrom(h + 1)

\* the configured servers whose start failed or whose type is not supported
NotStarted ==
    {h \in 1..NumServers : outcomes[h] \in {"connect_fails", "list_fails", "unsupported"}}

\* C19: in initialize_mcp_servers_and_agent with local tools disabled, a
\* failure while starting one configured server is recorded for that server
\* only and does not abort the registration of the others: registration
\* completes, the agent gets exactly the servers that started (the 1st and the
\* 3rd when the 2nd of three fails) and startup continues.
C19_AgentSetupToleratesFailure ==
    (reg.path = "agent_setup" /\ ~local_tools_enabled) =>
        /\ reg.pc # "raised"
        /\ reg.pc = "done" =>
              /\ agent
              /\ mcp_servers = StartedFrom(1)
              /\ failures = NotStarted

\* three servers of which the 2nd failed to start: the agent has the 1st and
\* the 3rd
C19_Witness ==
    /\ reg.path = "agent_setup" /\ ~local_tools_enabled
    /\ reg.pc = "done"
    /\ outcomes[1] = "ok" /\ outcomes[2] = "connect_fails" /\ outcomes[3] = "ok"
    /\ SubSeq(mcp_servers, 1, 2) = <<1, 3>>
    /\ 2 \in failures
    /\ agent

\* C20: in WebServer.initialize_agent a tool server that fails to connect or
\* to list its tools is recorded as failed for that server only and
\* registration continues: initialization completes with the servers that
\* started as live handles and the web server still starts.
C20_WebServerToleratesFailure ==
    reg.path = "web_resource" =>
        /\ reg.pc # "raised"
        /\ reg.pc = "done" =>
              /\ agent
              /\ \A h \in 1..NumServers :
                    outcomes[h] = "ok" => \E j \in 1..Len(mcp_servers) : mcp_servers[j] = h
\* the servers that connected and listed no tool, as far as the loop has got
ZeroToolServers ==
    {h \in 1..NumServers : h < reg.i /\ outcomes[h] = "no_tools"}
    \cup {h \in {LocalTools} : /\ reg.path = "agent_setup" /\ reg.pc = "done"
                               /\ local_tools_enabled /\ outcomes[h] = "no_tools"}

\* the elements of a list
Range(q) == {q[i] : i \in DOMAIN q}

\* C21: a tool server that connects and reports zero tools is torn down at
\* once and is afterwards in neither the server list given to the agent nor
\* the lifecycle list, in both registration paths.
C21_ZeroToolServerTornDown ==
    \A h \in ZeroToolServers :
        /\ h \in Range(closed)
        /\ h \notin Range(mcp_servers)
        /\ h \notin Range(mcp_server_lifecycles)

C23_NoSecondTeardown ==
    /\ ~teardown.raised
    /\ \A i, j \in DOMAIN closed : i # j => closed[i] # closed[j]

\* C24: send_llm_error_response_aiohttp always returns a response and never
\* raises; whenever the engine-generated page is unavailable or fails, the
\* response is the minimal plain-text one: its status is the requested code,
\* its body is 'HTTP <code> - <message>', a blank line,
\* 'Error Details: <detail>', and it carries Connection: close.
C24_MinimalFallback ==
    /\ errorCall.pc # "raised"
    /\ (errorCall.pc = "returned" /\ errorCall.tier1 # "page") =>
         LET parts == Split(resp.body, LFLF, 1)
         IN /\ resp.status = errorCall.status_code
            /\ Len(parts) = 2
            /\ parts[1] = <<"H", "T", "T", "P", SP>> \o IntToText(errorCall.status_code)
                             \o <<SP, "-", SP>> \o errorCall.message
            /\ parts[2] = <<"E", "r", "r", "o", "r", SP, "D", "e", "t", "a", "i", "l", "s",
                             ":", SP>> \o errorCall.error_details
            /\ \E i \in DOMAIN resp.headers :
                 resp.headers[i] = <<Str_Connection, Str_close>>

\* the engine raised while generating the page for a 404 and the responder
\* returned
C24_Witness ==
    /\ errorCall.pc = "returned"
    /\ errorCall.tier1 = "raises"
    /\ errorCall.status_code = 404
    /\ resp.status = 404

\* C25: when the engine-generated page (tier 1) fails or is unavailable, the
\* responder renders the static local template (tier 2) next, and emits the
\* minimal plain-text response (tier 3) only if that fails as well.
C25_StaticTemplateBeforeMinimal ==
    \A i \in DOMAIN errorCall.tiers :
        errorCall.tiers[i] = 3 => \E j \in 1..(i - 1) : errorCall.tiers[j] = 2

\* C26: within one request the engine is asked for an error page at most
\* once: a failure while generating or sending the error page never leads to
\* another engine-generated error page for the same request.
C26_OneErrorPagePerRequest == errorPagesAsked <= 1

\* the engine was asked for the error page, failed, and the request ended
\* with the minimal response on the wire
C26_Witness ==
    /\ pc = "done"
    /\ errorPagesAsked = 1
    /\ resp.body = Str_FallbackBody(500, Str_InternalServerError, Str_UnexpectedError)

\* C27: every request causes exactly one access-log line, emitted by the
\* outermost stage, also when the handler or an inner stage raises.
C27_OneAccessLogLine ==
    /\ accessLog <= 1
    /\ pc = "done" => accessLog = 1

\* C28: a request to the liveness-check path is answered with a fixed 200 OK
\* body without the generation engine being invoked for it.
C28_LivenessBypassesEngine ==
    route.path = Path_HealthCheck =>
        /\ route.engine_runs = 0
        /\ deltas = <<>>

\* the task w completes a call of the store method op in this step
Completes(w, op) ==
    /\ writers[w].pc = "body"
    /\ writers[w].ops[writers[w].i] = op
    /\ writers'[w].i = writers[w].i + 1

\* C29: when replace_history(s, h) completes for a non-empty session id s, the
\* stored history of s is h and get_token_count(s) is 0, whatever count was
\* stored before, and the count of s leaves 0 only in a step that completes
\* update_token_count on s.
C29_ReplaceResetsTokenCount ==
    [][/\ \A w \in Writers :
            Completes(w, "replace_history") =>
                /\ writers[w].session_id \in DOMAIN histories'
                /\ histories'[writers[w].session_id] = writers[w].arg
                /\ get_token_count(token_counts', writers[w].session_id) = 0
       /\ \A s \in Sessions :
            (get_token_count(token_counts, s) = 0
             /\ get_token_count(token_counts', s) # 0) =>
                \E w \in Writers :
                    /\ writers[w].session_id = s
                    /\ Completes(w, "update_token_count")]_vars

\* a turn stored the count 7 for the session and the replacement, which ran
\* after it, left the one-message history and the count 0
C29_Witness ==
    /\ writers[1].ops = TurnOps(7) /\ writers[1].pc = "done"
    /\ writers[2].ops = <<"replace_history">> /\ writers[2].pc = "done"
    /\ writers[2].session_id = writers[1].session_id
    /\ histories[writers[1].session_id] = ReplacementHistory
    /\ get_token_count(token_counts, writers[1].session_id) = 0

\* C30: a tool result changes the request's final session id only if it is
\* the result of a session creation or assignment tool: the final session id
\* is absent, the cookie's, or taken from the result of create_session or
\* assign_session_id, never from the result text of set_global_state.
C30_OnlySessionToolsSetTheId ==
    request.final_session_id_for_turn \in
        {<<>>, Cookie_Session} \cup {Strip(t) : t \in SessionToolResults}

\* the text before the first occurrence in t of either separator; at one
\* position only one of the two can match, CRLF CRLF being asked first
BeforeFirstSeparator(t) ==
    LET i == Find(t, CRLFCRLF)
        j == Find(t, LFLF)
        k == IF i = 0 THEN j ELSE IF j = 0 THEN i ELSE IF i <= j THEN i ELSE j
    IN SubSeq(t, 1, k - 1)

\* C31: the header block ends at the first occurrence, in the buffered text,
\* of either separator (CRLF CRLF or LF LF): the header section handed to the
\* parser is the text before that first occurrence, and everything after it
\* is body.
C31_HeaderEndsAtFirstSeparator ==
    ctx.header_section # <<>> =>
        /\ ctx.header_section = BeforeFirstSeparator(fed)
        /\ bodyStart >= 0 => bodyStart > Len(BeforeFirstSeparator(fed))

\* the headers the lines yield when every line holding a colon is split at
\* its first colon and both parts are trimmed
RECURSIVE ColonHeaders(_, _)
ColonHeaders(lines, headers) ==
    IF lines = <<>>
    THEN headers
    ELSE LET line == Strip(Head(lines))
             kv == Split(line, <<":">>, 1)
         IN ColonHeaders(Tail(lines),
                         IF Contains(line, <<":">>)
                         THEN DictSet(headers, Strip(kv[1]), Strip(kv[2]))
                         ELSE headers)

\* C32: every line of the engine's header block that contains a colon yields
\* a response header whose name is the text before the first colon and whose
\* value is the text after it, trimmed, also when no space follows the colon
\* or the value holds colons; a line with no colon is skipped and the
\* response does not fail.
C32_FirstColonSplitsHeader ==
    (ctx.response.prepared /\ ctx.header_section # <<>>) =>
        /\ ctx.response.status = 200
        /\ ctx.response.headers =
             ApplyHeaders(<<>>, ColonHeaders(Tail(HeaderLines(ctx.header_section)), <<>>))

\* C33: within one request no body byte is written to the client before the
\* status line and headers have been sent, and the response is prepared at
\* most once: after the first status line and header block none is sent again
\* for the request.
C33_HeadersOnceBeforeBody ==
    \A i \in DOMAIN wire :
        /\ wire[i].t = "body" => \E j \in 1..(i - 1) : wire[j].t = "head"
        /\ wire[i].t = "head" => \A j \in 1..(i - 1) : wire[j].t # "head"

\* C34: under any interleaving of concurrent record_turn calls, each completed
\* call appends exactly one message, its own, at the end of its session's
\* history and leaves every earlier message and every other session as it
\* was; no step other than a replacement removes or alters a stored message;
\* and in a session that is never replaced the history is as long as the
\* number of completed calls.
C34_TurnsAppendInLockOrder ==
    [][/\ \A w \in Writers, role \in {"user", "assistant"} :
            Completes(w, IF role = "user" THEN "record_turn_user"
                         ELSE "record_turn_assistant") =>
                /\ histories' =
                     Put(histories, writers[w].session_id,
                         Get(histories, writers[w].session_id, <<>>)
                            \o <<ChatMessage(role, w)>>)
       /\ (\A w \in Writers : ~Completes(w, "replace_history")) =>
            \A s \in DOMAIN histories :
                /\ s \in DOMAIN histories'
                /\ Len(histories'[s]) >= Len(histories[s])
                /\ SubSeq(histories'[s], 1, Len(histories[s])) = histories[s]
       /\ \A s \in Sessions :
            (\A w \in Writers :
                writers[w].session_id = s => "replace_history" \notin Range(writers[w].ops)) =>
                Len(Get(histories', s, <<>>)) =
                    Cardinality({<<w, k>> \in Writers \X (1..3) :
                        /\ writers'[w].session_id = s
                        /\ k < writers'[w].i
                        /\ k <= Len(writers'[w].ops)
                        /\ writers'[w].ops[k] \in {"record_turn_user",
                                                     "record_turn_assistant"}})]_vars

\* two requests of one session recorded their turns concurrently: the second
\* task's user message was appended between the two messages of the first
C34_Witness ==
    /\ \A w \in Writers : writers[w].pc = "done"
    /\ "a" \in DOMAIN histories
    /\ Len(histories["a"]) = 4
    /\ histories["a"][1] = ChatMessage("user", 1)
    /\ histories["a"][2] = ChatMessage("user", 2)

\* the lock objects in use for session s: those a task holds or waits on, or
\* has just been handed by _get_session_lock
LocksInUse(s) ==
    {writers[w].lock : w \in {x \in Writers : /\ writers[x].session_id = s
                                                /\ writers[x].pc \in {"acquire", "body"}}}
    \cup {flush.locks[j] : j \in {x \in 1..Len(flush.locks) : flush.session_ids[x] = s}}

\* C35: a session's lock is never evicted or replaced while a task holds it
\* or waits on it: all tasks operating on one session id at the same time have
\* the same lock object, which is the one the store keeps for the session, and
\* at most one of them is inside the session's critical section.
C35_OneLockPerSessionInUse ==
    \A s \in Sessions :
        /\ Cardinality(LocksInUse(s)) <= 1
        /\ LocksInUse(s) # {} =>
              /\ LockKey(s) \in DOMAIN session_locks
              /\ session_locks[LockKey(s)] \in LocksInUse(s)
        /\ Cardinality({w \in Writers : writers[w].session_id = s /\ writers[w].pc = "body"})
             + (IF \E j \in 1..flush.acquired : flush.session_ids[j] = s THEN 1 ELSE 0) <= 1

\* a task waits on the lock that another task of the same session holds in
\* its second call of the store
C35_Witness ==
    /\ writers[1].pc = "body"
    /\ writers[2].pc = "acquire"
    /\ writers[2].session_id = writers[1].session_id
    /\ writers[2].lock = writers[1].lock
    /\ writers[1].i > 1

\* what the transport is handed when the whole text arrives as one delta and
\* the stream ends
OneChunk(t) ==
    LET r0 == CallState(NewStreamingContext, <<>>, FALSE, 0)
    IN finish_stream(IF t = <<>> THEN r0 ELSE process_chunk(r0, t, TRUE), TRUE).wire

\* C36: for any engine text and any two ways of splitting it into text
\* deltas, the Transcoder produces the same status, the same headers and the
\* same body: whatever the deltas were, the result is the one the undivided
\* text gives.
C36_ResultIndependentOfChunking ==
    (pc = "returned" /\ connected /\ ~failed) => wire = OneChunk(text)

\* C37: when create_session or assign_session_id returns, the session id the
\* Transcoder adopts is exactly the identifier the tool created or was asked
\* to assign (here 's-1'), not a longer text that contains it.
C37_AdoptsExactlyTheToolsId ==
    [][\A t \in SessionToolResults :
          ToolOutput(t) => ctx'.session_id_from_tool_call = Tool_SessionId]_vars

\* the assistant turn the claim asks for: the marker and the collected text
\* when an error indicator is set, the placeholder for a blank text, the text
\* otherwise; the marker and the placeholder are kept symbolic
AssistantTurn(indicator, collected) ==
    IF indicator # "None"
    THEN <<"[MODEL_INTERRUPTED_OR_ERROR: ", indicator, "]", LF, LF>> \o collected
    ELSE IF Strip(collected) = <<>>
    THEN <<"[LLM_EMPTY_RESPONSE_STREAMED]">>
    ELSE collected

\* C38: when a request ends with a model error indicator set, the assistant
\* turn persisted for it begins with the [MODEL_INTERRUPTED_OR_ERROR: ...]
\* marker followed by the collected text, and when the engine produced no text
\* it is the empty-response placeholder; an assistant turn is never stored as
\* unmarked partial text or as an empty string.
C38_ErrorTurnsAreMarked ==
    \A i \in DOMAIN persisted :
        persisted[i].role = "assistant" =>
            persisted[i].content =
                AssistantTurn(request.model_error_indicator_for_recording,
                              request.llm_response_fully_collected_text_for_log)

\* the servers registration has connected so far: those whose connect
\* returned, whatever listing their tools did afterwards
ConnectedServers ==
    {h \in 1..NumServers :
        /\ outcomes[h] \in {"ok", "no_tools", "list_fails"}
        /\ h < reg.i \/ (h = reg.i /\ reg.pc = "raised")}
    \cup {h \in {LocalTools} :
            /\ reg.path = "agent_setup" /\ reg.pc = "done" /\ local_tools_enabled
            /\ outcomes[h] \in {"ok", "no_tools", "list_fails"}}

\* C39: every tool server that was connected during registration is, in every
\* later state, either in the lifecycle list that shutdown tears down or
\* already torn down, also when listing its tools fails or when a later
\* server's registration fails.
C39_ConnectedServerIsReleasable ==
    \A h \in ConnectedServers :
        h \in Range(mcp_server_lifecycles) \/ h \in Range(closed)

\* C40: after destroy_web_resource for a resource has returned, that
\* resource's web server is not listening and never starts listening later,
\* even if a start_web_server background task for the same resource was
\* still in flight when destroy was called.
C40_DestroyedServerNeverListens ==
    \A r \in ResourceIds :
        web_servers[r].destroy = "returned" => ~web_servers[r].listening

====
